---------------------------- MODULE Spec2Model ----------------------------
(***************************************************************************)
(* Model of the Bitbucket PR agent: the webhook's background run           *)
(* (src/src/server.ts), the retry and rate-limiting helpers                *)
(* (src/unnamed/part_000: retryWithBackoff, RateLimiter, isRetryableError),*)
(* the remote write (src/src/bitbucket.ts: postInlineComment), the         *)
(* suggestion validator (src/src/claude.ts: runClaudeInline) and the diff  *)
(* parser (src/src/diffParser.ts: parseDiff, getModifiedLineNumbers,       *)
(* formatDiffWithLineNumbers) and the tolerant array extractor             *)
(* (src/unnamed/part_000: parseClaudeArray) with the build of              *)
(* runClaudeInline that uses it (src/unnamed/part_002).                    *)
(*                                                                         *)
(* Scheduling.  The service runs on Node's event loop (Dockerfile: node    *)
(* 20).  Code runs to completion until it awaits; the continuation of a    *)
(* settled promise is a microtask, microtasks run in FIFO order, and a     *)
(* macrotask (a timer firing, an HTTP response arriving, the child         *)
(* process closing, a webhook request arriving) starts only when the       *)
(* microtask queue is empty.  The variable microtasks is that queue; it    *)
(* holds ids of runs, since every run is one chain of awaits.              *)
(***************************************************************************)
EXTENDS Integers, Sequences, FiniteSets, TLC

\* ------------------------------------------------------------------ bounds
\* Runs that share the limiter in SpecLimiter.
LimiterRuns == 5
\* Runs of SpecLimiter that may receive two items and so ask for a slot twice;
\* the others receive one item.
LimiterReturning == 1
\* Failing responses the remote gives in one behaviour of SpecLimiter.
LimiterFaults == 1

\* Longest list of validated inline items a run of Spec receives.
MaxItems == 2
\* Failing responses the remote gives to posts in one behaviour of Spec.
MaxFaults == 4
\* Largest value MAX_INLINE_COMMENTS is set to in Spec.
MaxEnvMax == 1

\* Longest array of candidate suggestions in SpecValidate.
MaxCands == 2
\* Lines of a diff text in SpecDiff.
MaxDiffLines == 4
\* Largest maxRetries option in SpecRetry.
MaxRetryOption == 3
\* Runs that share the limiter in SpecLimiterLive.
LiveRuns == 4

\* ------------------------------------------------------- program constants
maxConcurrent == 3
minDelay == 200
maxRetries == 3
initialDelay == 1000
maxDelay == 10000
backoffMultiplier == 2
DefaultMaxInline == 10
ScoreThreshold == 6
MaxCandidates == 25

Runs == 1..LimiterRuns

Min(a, b) == IF a < b THEN a ELSE b

\* --------------------------------------------------------------- the remote
\* What one call of fetch inside postInlineComment ends with.  ok: a 2xx
\* response whose JSON carries the id of the created comment.  Otherwise an
\* error is thrown: for a non-2xx response it carries the status and its
\* message is "postInlineComment: <status> <body text>"; for a failure of
\* fetch itself (no status: NoStatus) the message is the transport's text.
\* text holds the lower-cased words of the body or of the transport error.
NoStatus == 0
CommentIds == {"c1"}
OkResponses == {[ok |-> TRUE, id |-> c] : c \in CommentIds}
ErrResponse(s, t) == [ok |-> FALSE, status |-> s, text |-> t]
HttpStatuses == {400, 401, 429, 502, 503, 504}
PlainBody == <<"bad", "request">>
TimeoutBody == <<"upstream", "etimedout">>
TransportTexts == {<<"read", "econnreset">>, <<"invalid", "json">>}
ErrResponses ==
  {ErrResponse(s, PlainBody) : s \in HttpStatuses}
    \cup {ErrResponse(400, TimeoutBody)}
    \cup {ErrResponse(NoStatus, t) : t \in TransportTexts}
Responses == OkResponses \cup ErrResponses
\* the responses SpecLimiter draws from
LimiterResponses ==
  OkResponses \cup {ErrResponse(503, PlainBody), ErrResponse(400, PlainBody)}

\* String(error?.message || error).toLowerCase().includes(w): the message
\* ends with the words of text, and the words before them are none of those
\* looked for
Includes(text, w) == \E k \in 1..Len(text) : text[k] = w

isRetryableError(error) ==
  \/ Includes(error.text, "econnreset")
  \/ Includes(error.text, "enotfound")
  \/ Includes(error.text, "etimedout")
  \/ error.status \in {429, 502, 503, 504}

\* RetryDecision that gives up one attempt late
RetryDecisionOneMore(error, attempt) ==
  IF ~isRetryableError(error) THEN "throw"
  ELSE IF attempt > maxRetries THEN "break"
  ELSE "sleep"

\* The catch block of retryWithBackoff after a failed attempt number
\* attempt (0-based): rethrow at once, give up, or sleep and go round again.
RetryDecision(error, attempt) ==
  IF ~isRetryableError(error) THEN "throw"
  ELSE IF attempt >= maxRetries THEN "break"
  ELSE "sleep"

\* delay = Math.min(delay * backoffMultiplier, maxDelay)
NextDelay(d) == Min(d * backoffMultiplier, maxDelay)

\* ------------------------------------------------------------------- state
VARIABLES
  running,      \* RateLimiter.running
  queue,        \* RateLimiter.queue: the resolvers of the waiting callers, by run
  microtasks,   \* the event loop's microtask queue (run ids)
  pc,           \* where each run's background task is suspended
  envMax,       \* process.env.MAX_INLINE_COMMENTS: <<>> when unset, else <<n>>
  inline,       \* the items runClaudeInline returned to the run
  cap,          \* Math.min(inline.length, configured max)
  i,            \* the delivery loop's index
  posted,       \* the outcome sequence
  attempt,      \* retryWithBackoff's attempt
  delay,        \* retryWithBackoff's delay
  lastError,    \* retryWithBackoff's lastError, then the error execute rejects with
  result,       \* the value the post operation resolved with
  env,          \* process.env.ENABLE_DESCRIBE / _REVIEW / _INLINE === "1"
  flags,        \* enableDescribe, enableReview, enableInline of each run
  prObj,        \* whether the fetched PR description holds the AI summary marker
  started,      \* observer: the tasks whose generation the run has called
  failed,       \* observer: the step whose error reached the outer catch
  faults,       \* failing responses the remote may still give
  parsed,       \* runClaudeInline: the array parsed from the engine's output
  fileMap,      \* runClaudeInline: path -> the valid lines of that file
  validated,    \* runClaudeInline: the items returned
  sources,      \* observer: the index in parsed each returned item came from
  phase,        \* which function has been applied to the inputs
  log,          \* observer: per attempted item, the calls and waits of its post
  waitOrder,    \* observer: callers waiting for a slot, by the time they first asked
  diffText,     \* parseDiff: the lines of the diff text (diffText.split("\n"))
  parsedDiff,   \* parseDiff: the ParsedDiff returned
  modifiedLines,\* getModifiedLineNumbers of each parsed file
  sections,     \* formatDiffWithLineNumbers: the sections before the join
  options,      \* retryWithBackoff: the options it was called with
  retry,        \* retryWithBackoff: attempt, delay and how the call stands
  waits,        \* observer: the delays retryWithBackoff has slept, in order
  query,        \* req.query.describe / .review / .inline of each run's request
  request,      \* observer: what kind of request each run's webhook call was
  response,     \* observer: the HTTP responses sent to each run's request
  out,          \* runClaudeInline: the text the generation engine printed
  input,        \* parseClaudeArray: its argument
  extracted,    \* parseClaudeArray: the array it returned, or that it threw
  wrapped,      \* observer: the array and the wrapping input was made from
  build,        \* which runClaudeInline is deployed: "strict" or "lenient"
  description,  \* the pull request's description as Bitbucket holds it
  describe      \* per run: the description getPR returned and the one it PUT

vars == <<running, queue, microtasks, pc, envMax, inline, cap, i, posted,
          attempt, delay, lastError, result, env, flags, prObj, started, failed,
          faults, parsed, fileMap, validated, sources, phase, log, waitOrder,
          diffText, parsedDiff, modifiedLines, sections, options, retry, waits,
          query, request, response, out, input, extracted, wrapped, build,
          description, describe>>

\* what the pure functions are applied to, and their results
diffVars == <<diffText, parsedDiff, modifiedLines, sections>>
retryVars == <<options, retry, waits>>
extractVars == <<out, input, extracted, wrapped, build>>
pureVars == <<parsed, fileMap, validated, sources, phase, diffVars, retryVars,
              extractVars>>

\* retryWithBackoff before it is called. calls counts the invocations of
\* fn; an invocation is named by its number, and so are the value it
\* returns and the error it throws. lastError, result and error are 0 while
\* they are still undefined.
RetryIdle ==
  [attempt |-> 0, delay |-> 0, status |-> "none", calls |-> 0,
   lastError |-> 0, result |-> 0, error |-> 0]

\* the value of these variables where the diff parser and a stand-alone
\* retryWithBackoff call are not under study
NoParsedDiff == [files |-> <<>>, totalAdditions |-> 0, totalDeletions |-> 0]
DefaultOptions ==
  [maxRetries |-> maxRetries, initialDelay |-> initialDelay,
   maxDelay |-> maxDelay, backoffMultiplier |-> backoffMultiplier]
NoInput == [t |-> "undefined", v |-> 0]
NotExtracted == [threw |-> FALSE, value |-> <<>>]
NotWrapped == [array |-> <<>>, wrapping |-> "none"]
ExtractIdle ==
  /\ out = <<>>
  /\ input = NoInput
  /\ extracted = NotExtracted
  /\ wrapped = NotWrapped
  /\ build = "strict"
PureIdle ==
  /\ ExtractIdle
  /\ diffText = <<>>
  /\ parsedDiff = NoParsedDiff
  /\ modifiedLines = <<>>
  /\ sections = <<>>
  /\ options = DefaultOptions
  /\ retry = RetryIdle
  /\ waits = <<>>

\* what the steps before the delivery loop own
\* the description of the pull request and what each run did with it
describeVars == <<description, describe>>
\* a description is a sequence of pieces of text; Marker is the piece
\* "### 🤖 AI Summary".  NotSent: updatePRDescription has not been called.
Marker == "### AI Summary"
NotSent == [called |-> FALSE, text |-> <<>>]
DescribeIdle ==
  /\ description = <<>>
  /\ describe = [r \in Runs |-> [fetched |-> <<>>, sent |-> NotSent]]

taskVars == <<env, flags, prObj, started, failed, query, request, response,
              describeVars>>

NoError == [ok |-> TRUE, id |-> "none"]

\* a diff with no files
NoFiles == [p \in {} |-> {}]

Flags == [describe : BOOLEAN, review : BOOLEAN, inline : BOOLEAN]
\* a query parameter: the string "false", the string "true", or absent
QueryValues == {"false", "true", "none"}
Queries == [describe : QueryValues, review : QueryValues, inline : QueryValues]
\* the queries of the runs whose delivery is followed: no parameter, or
\* inline=false
PlainQueries == {q \in Queries : q.describe = "none" /\ q.review = "none" /\ q.inline # "true"}
NoQuery == [describe |-> "none", review |-> "none", inline |-> "none"]
AllOn == [describe |-> TRUE, review |-> TRUE, inline |-> TRUE]

\* the items a run may receive: item k targets line k of file "f"
Item(k) == [path |-> "f", to |-> k]
ItemList(n) == [k \in 1..n |-> Item(k)]

\* Number(process.env.MAX_INLINE_COMMENTS || 10)
ConfiguredMax == IF envMax = <<>> THEN DefaultMaxInline ELSE envMax[1]

Last(s) == s[Len(s)]
SetLast(s, x) == [s EXCEPT ![Len(s)] = x]
InSeq(s, x) == \E k \in 1..Len(s) : s[k] = x
Without(s, x) == SelectSeq(s, LAMBDA y : y # x)

\* ------------------------------------------------------------ RateLimiter
\* execute up to the first call of fn: the wait loop, running++, then
\* postInlineComment -> retryWithBackoff -> fetch, all in one synchronous
\* stretch.  A caller that finds no slot pushes its resolver and suspends.
NoSlotOffByOne == running > maxConcurrent
NoSlot == running >= maxConcurrent

ExecuteEnter(r) ==
  IF NoSlot
  THEN /\ queue' = Append(queue, r)
       /\ pc' = [pc EXCEPT ![r] = "waiting"]
       /\ waitOrder' = IF InSeq(waitOrder, r) THEN waitOrder ELSE Append(waitOrder, r)
       /\ UNCHANGED <<running, attempt, delay, lastError, log>>
  ELSE /\ running' = running + 1
       /\ pc' = [pc EXCEPT ![r] = "posting"]
       /\ attempt' = [attempt EXCEPT ![r] = 0]
       /\ delay' = [delay EXCEPT ![r] = initialDelay]
       /\ lastError' = [lastError EXCEPT ![r] = NoError]
       /\ log' = [log EXCEPT ![r] = Append(@, [calls |-> 1, waits |-> 0, paced |-> FALSE])]
       /\ waitOrder' = Without(waitOrder, r)
       /\ UNCHANGED queue

\* const next = this.queue.shift()
DequeueLast(q) == [next |-> q[Len(q)], rest |-> SubSeq(q, 1, Len(q) - 1)]
Dequeue(q) == [next |-> Head(q), rest |-> Tail(q)]

\* The finally block of execute, run by r, whose awaiting caller resumes at
\* label after.  next() settles the first waiter's promise, so that waiter's
\* continuation is queued before r's own.
ReleaseLeaksOnThrow(r, after) ==
  /\ running' = IF after = "caught" THEN running ELSE running - 1
  /\ IF queue # <<>>
     THEN /\ queue' = Dequeue(queue).rest
          /\ pc' = [pc EXCEPT ![r] = after, ![Dequeue(queue).next] = "woken"]
          /\ microtasks' = microtasks \o <<Dequeue(queue).next, r>>
     ELSE /\ queue' = queue
          /\ pc' = [pc EXCEPT ![r] = after]
          /\ microtasks' = Append(microtasks, r)
ReleaseWithoutWakeUp(r, after) ==
  /\ running' = running - 1
  /\ queue' = queue
  /\ pc' = [pc EXCEPT ![r] = after]
  /\ microtasks' = Append(microtasks, r)
Release(r, after) ==
  /\ running' = running - 1
  /\ IF queue # <<>>
     THEN /\ queue' = Dequeue(queue).rest
          /\ pc' = [pc EXCEPT ![r] = after, ![Dequeue(queue).next] = "woken"]
          /\ microtasks' = microtasks \o <<Dequeue(queue).next, r>>
     ELSE /\ queue' = queue
          /\ pc' = [pc EXCEPT ![r] = after]
          /\ microtasks' = Append(microtasks, r)

\* ----------------------------------------------------------- delivery loop
\* for (let i = 0; i < cap; i++) at index j: call execute, or leave the loop
LoopHead(r, j, c) ==
  IF j < c
  THEN ExecuteEnter(r)
  ELSE /\ pc' = [pc EXCEPT ![r] = "done"]
       /\ UNCHANGED <<running, queue, attempt, delay, lastError, log, waitOrder>>

\* const cap = Math.min(inline.length, Number(process.env.MAX_INLINE_COMMENTS || 10))
CapIgnoresMax(n, max) == n
Cap(n, max) == Min(n, max)

\* runClaudeInline resolves with items; the run computes cap and enters the loop
InlineGenerated(r, items) ==
  /\ microtasks = <<>>
  /\ pc[r] = "inline_gen"
  /\ inline' = [inline EXCEPT ![r] = items]
  /\ cap' = [cap EXCEPT ![r] = Cap(Len(items), ConfiguredMax)]
  /\ i' = [i EXCEPT ![r] = 0]
  /\ posted' = [posted EXCEPT ![r] = <<>>]
  /\ LoopHead(r, 0, Cap(Len(items), ConfiguredMax))
  /\ UNCHANGED <<pureVars, microtasks, envMax, result, faults, taskVars>>

\* a woken waiter goes round the wait loop again
Woken(r) ==
  /\ microtasks # <<>> /\ Head(microtasks) = r
  /\ pc[r] = "woken"
  /\ microtasks' = Tail(microtasks)
  /\ ExecuteEnter(r)
  /\ UNCHANGED <<pureVars, envMax, inline, cap, i, posted, result, faults, taskVars>>

\* the response to one fetch of postInlineComment arrives
PostResponse(r, resp) ==
  /\ microtasks = <<>>
  /\ pc[r] = "posting"
  /\ IF resp.ok
     THEN \* retryWithBackoff returns; execute goes on to sleep(minDelay)
          /\ result' = [result EXCEPT ![r] = resp]
          /\ pc' = [pc EXCEPT ![r] = "pacing"]
          /\ log' = [log EXCEPT ![r] = SetLast(log[r], [Last(log[r]) EXCEPT !.paced = TRUE])]
          /\ UNCHANGED <<running, queue, microtasks, lastError, faults>>
     ELSE /\ faults > 0
          /\ faults' = faults - 1
          /\ lastError' = [lastError EXCEPT ![r] = resp]
          /\ UNCHANGED result
          /\ IF RetryDecision(resp, attempt[r]) = "sleep"
             THEN /\ pc' = [pc EXCEPT ![r] = "backoff"]
                  /\ log' = [log EXCEPT ![r] = SetLast(log[r], [Last(log[r]) EXCEPT !.waits = @ + 1])]
                  /\ UNCHANGED <<running, queue, microtasks>>
             ELSE \* retryWithBackoff throws; execute skips the sleep
                  /\ Release(r, "caught")
                  /\ UNCHANGED log
  /\ UNCHANGED <<pureVars, envMax, inline, cap, i, posted, attempt, delay, waitOrder, taskVars>>

\* the backoff sleep ends: the delay grows and the next attempt is made
BackoffDone(r) ==
  /\ microtasks = <<>>
  /\ pc[r] = "backoff"
  /\ delay' = [delay EXCEPT ![r] = NextDelay(@)]
  /\ attempt' = [attempt EXCEPT ![r] = @ + 1]
  /\ pc' = [pc EXCEPT ![r] = "posting"]
  /\ log' = [log EXCEPT ![r] = SetLast(log[r], [Last(log[r]) EXCEPT !.calls = @ + 1])]
  /\ UNCHANGED <<pureVars, running, queue, microtasks, envMax, inline, cap, i, posted,
                 lastError, result, faults, waitOrder, taskVars>>

\* sleep(minDelay) ends: execute returns the result through its finally block
PacingDone(r) ==
  /\ microtasks = <<>>
  /\ pc[r] = "pacing"
  /\ Release(r, "returned")
  /\ UNCHANGED <<pureVars, envMax, inline, cap, i, posted, attempt, delay, lastError,
                 result, faults, log, waitOrder, taskVars>>

\* the outcome pushed for item it: the try branch or the catch branch
Outcome(it, how, res, err) ==
  IF how = "returned"
  THEN [path |-> it.path, to |-> it.to, id |-> res.id]
  ELSE [path |-> it.path, to |-> it.to, error |-> <<err.status, err.text>>]

\* Record with a catch block that leaves the loop
RecordBreaksOnFailure(r) ==
  /\ microtasks # <<>> /\ Head(microtasks) = r
  /\ pc[r] \in {"returned", "caught"}
  /\ microtasks' = Tail(microtasks)
  /\ posted' = [posted EXCEPT ![r] =
        Append(@, Outcome(inline[r][i[r] + 1], pc[r], result[r], lastError[r]))]
  /\ i' = [i EXCEPT ![r] = @ + 1]
  /\ LoopHead(r, IF pc[r] = "caught" THEN cap[r] ELSE i[r] + 1, cap[r])
  /\ UNCHANGED <<pureVars, envMax, inline, cap, result, faults, taskVars>>

\* Record with a catch block that only logs
RecordDropsFailure(r) ==
  /\ microtasks # <<>> /\ Head(microtasks) = r
  /\ pc[r] \in {"returned", "caught"}
  /\ microtasks' = Tail(microtasks)
  /\ posted' = [posted EXCEPT ![r] =
        IF pc[r] = "caught" THEN @
        ELSE Append(@, Outcome(inline[r][i[r] + 1], pc[r], result[r], lastError[r]))]
  /\ i' = [i EXCEPT ![r] = @ + 1]
  /\ LoopHead(r, i[r] + 1, cap[r])
  /\ UNCHANGED <<pureVars, envMax, inline, cap, result, faults, taskVars>>

\* the loop body after await: push the outcome, i++, next iteration
Record(r) ==
  /\ microtasks # <<>> /\ Head(microtasks) = r
  /\ pc[r] \in {"returned", "caught"}
  /\ microtasks' = Tail(microtasks)
  /\ posted' = [posted EXCEPT ![r] =
        Append(@, Outcome(inline[r][i[r] + 1], pc[r], result[r], lastError[r]))]
  /\ i' = [i EXCEPT ![r] = @ + 1]
  /\ LoopHead(r, i[r] + 1, cap[r])
  /\ UNCHANGED <<pureVars, envMax, inline, cap, result, faults, taskVars>>

\* ------------------------------------------------------ background task
\* The tasks run in the order describe, review, inline; from names the first
\* one not yet passed.  The result is the next enabled task, or "end".
NextStage(f, from) ==
  IF from = "describe" /\ f.describe THEN "describe"
  ELSE IF from \in {"describe", "review"} /\ f.review THEN "review"
  ELSE IF f.inline THEN "inline"
  ELSE "end"

GenPc(stage) ==
  CASE stage = "describe" -> "describe_gen"
    [] stage = "review" -> "review_gen"
    [] stage = "inline" -> "inline_gen"
    [] stage = "end" -> "done"

\* fall through the if-blocks to the next enabled task and call its generation
Advance(r, from) ==
  LET st == NextStage(flags[r], from) IN
  /\ pc' = [pc EXCEPT ![r] = GenPc(st)]
  /\ started' = [started EXCEPT ![r] = IF st = "end" THEN @ ELSE @ \cup {st}]
  /\ UNCHANGED <<failed, response>>

\* an error thrown in the async body lands in its one catch block, which
\* logs it
AbortResponds(r, step) ==
  /\ pc' = [pc EXCEPT ![r] = "aborted"]
  /\ failed' = [failed EXCEPT ![r] = step]
  /\ response' = [response EXCEPT ![r] = Append(@, [status |-> 500, body |-> "error"])]
  /\ UNCHANGED started
AbortContinues(r, step) ==
  /\ pc' = [pc EXCEPT ![r] = GenPc(NextStage(flags[r], "describe"))]
  /\ failed' = [failed EXCEPT ![r] = step]
  /\ started' = [started EXCEPT ![r] =
        IF NextStage(flags[r], "describe") = "end" THEN @
        ELSE @ \cup {NextStage(flags[r], "describe")}]
  /\ UNCHANGED response
Abort(r, step) ==
  /\ pc' = [pc EXCEPT ![r] = "aborted"]
  /\ failed' = [failed EXCEPT ![r] = step]
  /\ UNCHANGED <<started, response>>

postVars == <<pureVars, running, queue, microtasks, envMax, inline, cap, i, posted,
              attempt, delay, lastError, result, faults, log, waitOrder>>
deliveryVars == <<postVars, describeVars>>

\* an accepted pull-request event: the feature switches are read, the
\* response is sent and the background task starts with getAccessToken
\* req.query.x !== "false" && process.env.ENABLE_X === "1"
EnabledByQueryToo(param, envFlag) == param = "true" \/ (param # "false" /\ envFlag)
Enabled(param, envFlag) == param # "false" /\ envFlag

\* the handler's answers
Response(status, body) == [status |-> status, body |-> body]
Ack == Response(200, "processing")
RejectionOf(kind) ==
  CASE kind = "bad_signature" -> Response(401, "bad signature")
    [] kind = "other_event" -> Response(200, "skipped")
    [] kind = "no_pr_id" -> Response(400, "no pr id")
    [] kind = "no_repo" -> Response(400, "no workspace/repo")
    [] kind = "throws" -> Response(500, "error")
RejectedKinds == {"bad_signature", "other_event", "no_pr_id", "no_repo", "throws"}

\* a pull-request event that passes every check: the handler computes the
\* flags, answers, and starts the background task up to its first await
Webhook(r, q) ==
  /\ microtasks = <<>>
  /\ pc[r] = "idle"
  /\ query' = [query EXCEPT ![r] = q]
  /\ request' = [request EXCEPT ![r] = "accepted"]
  /\ flags' = [flags EXCEPT ![r] =
        [describe |-> Enabled(q.describe, env.describe),
         review |-> Enabled(q.review, env.review),
         inline |-> Enabled(q.inline, env.inline)]]
  /\ response' = [response EXCEPT ![r] = Append(@, Ack)]
  /\ pc' = [pc EXCEPT ![r] = "token"]
  /\ UNCHANGED <<deliveryVars, env, prObj, started, failed>>

\* a request the handler answers without starting a background task: a bad
\* signature, another event, no PR id, no workspace or repository, or an
\* exception thrown on the way (the handler's catch block)
WebhookRejected(r, kind) ==
  /\ microtasks = <<>>
  /\ pc[r] = "idle"
  /\ request' = [request EXCEPT ![r] = kind]
  /\ response' = [response EXCEPT ![r] = Append(@, RejectionOf(kind))]
  /\ pc' = [pc EXCEPT ![r] = "rejected"]
  /\ UNCHANGED <<deliveryVars, env, flags, prObj, started, failed, query>>

TokenDone(r, ok) ==
  /\ microtasks = <<>>
  /\ pc[r] = "token"
  /\ IF ok THEN pc' = [pc EXCEPT ![r] = "getPR"] /\ UNCHANGED <<started, failed, response>>
           ELSE Abort(r, "token")
  /\ UNCHANGED <<deliveryVars, env, flags, prObj, query, request>>

GetPRDone(r, ok, hasMarker) ==
  /\ microtasks = <<>>
  /\ pc[r] = "getPR"
  /\ IF ok THEN /\ pc' = [pc EXCEPT ![r] = "getDiff"]
                /\ prObj' = [prObj EXCEPT ![r] = hasMarker]
                /\ UNCHANGED <<started, failed, response>>
           ELSE Abort(r, "getPR") /\ UNCHANGED prObj
  /\ UNCHANGED <<deliveryVars, env, flags, query, request>>

GetDiffDone(r, ok) ==
  /\ microtasks = <<>>
  /\ pc[r] = "getDiff"
  /\ IF ok THEN Advance(r, "describe") ELSE Abort(r, "getDiff")
  /\ UNCHANGED <<deliveryVars, env, flags, prObj, query, request>>

\* runClaudeDescribe settles; nonEmpty: the summary is not the empty string
DescribeGenerated(r, ok, nonEmpty) ==
  /\ microtasks = <<>>
  /\ pc[r] = "describe_gen"
  /\ IF ~ok THEN Abort(r, "describe")
     ELSE IF nonEmpty /\ ~prObj[r]
          THEN pc' = [pc EXCEPT ![r] = "describe_put"] /\ UNCHANGED <<started, failed, response>>
          ELSE Advance(r, "review")
  /\ UNCHANGED <<deliveryVars, env, flags, prObj, query, request>>

\* updatePRDescription settles
DescribePut(r, ok) ==
  /\ microtasks = <<>>
  /\ pc[r] = "describe_put"
  /\ IF ok THEN Advance(r, "review") ELSE Abort(r, "describe")
  /\ UNCHANGED <<deliveryVars, env, flags, prObj, query, request>>

\* runClaudeReview settles
ReviewGenerated(r, ok, nonEmpty) ==
  /\ microtasks = <<>>
  /\ pc[r] = "review_gen"
  /\ IF ~ok THEN Abort(r, "review")
     ELSE IF nonEmpty
          THEN pc' = [pc EXCEPT ![r] = "review_post"] /\ UNCHANGED <<started, failed, response>>
          ELSE Advance(r, "inline")
  /\ UNCHANGED <<deliveryVars, env, flags, prObj, query, request>>

\* postPRComment settles
ReviewPosted(r, ok) ==
  /\ microtasks = <<>>
  /\ pc[r] = "review_post"
  /\ IF ok THEN Advance(r, "inline") ELSE Abort(r, "review")
  /\ UNCHANGED <<deliveryVars, env, flags, prObj, query, request>>

\* the generation engine exits with an error: runClaudeInline rejects
InlineFailed(r) ==
  /\ microtasks = <<>>
  /\ pc[r] = "inline_gen"
  /\ Abort(r, "inline")
  /\ UNCHANGED <<deliveryVars, env, flags, prObj, query, request>>

\* ------------------------------------------------------------------- Spec
\* One PR run, from the webhook to the end of its background task.
EnvMaxValues == {<<>>} \cup {<<n>> : n \in 0..MaxEnvMax}

Init ==
  /\ running = 0
  /\ queue = <<>>
  /\ microtasks = <<>>
  /\ pc = [r \in Runs |-> IF r = 1 THEN "idle" ELSE "off"]
  /\ envMax \in EnvMaxValues
  /\ inline = [r \in Runs |-> <<>>]
  /\ cap = [r \in Runs |-> 0]
  /\ i = [r \in Runs |-> 0]
  /\ posted = [r \in Runs |-> <<>>]
  /\ attempt = [r \in Runs |-> 0]
  /\ delay = [r \in Runs |-> initialDelay]
  /\ lastError = [r \in Runs |-> NoError]
  /\ result = [r \in Runs |-> NoError]
  /\ env \in Flags
  /\ flags = [r \in Runs |-> [describe |-> FALSE, review |-> FALSE, inline |-> FALSE]]
  /\ prObj = [r \in Runs |-> FALSE]
  /\ started = [r \in Runs |-> {}]
  /\ failed = [r \in Runs |-> "none"]
  /\ faults = MaxFaults
  /\ parsed = <<>>
  /\ fileMap = NoFiles
  /\ validated = <<>>
  /\ sources = <<>>
  /\ phase = "none"
  /\ log = [r \in Runs |-> <<>>]
  /\ waitOrder = <<>>
  /\ PureIdle
  /\ query = [r \in Runs |-> NoQuery]
  /\ request = [r \in Runs |-> "none"]
  /\ response = [r \in Runs |-> <<>>]
  /\ DescribeIdle

Next ==
  \/ \E r \in Runs, q \in PlainQueries : Webhook(r, q)
  \/ \E r \in Runs, kind \in RejectedKinds : WebhookRejected(r, kind)
  \/ \E r \in Runs, ok \in BOOLEAN : TokenDone(r, ok)
  \/ \E r \in Runs, ok \in BOOLEAN, m \in BOOLEAN : GetPRDone(r, ok, m)
  \/ \E r \in Runs, ok \in BOOLEAN : GetDiffDone(r, ok)
  \/ \E r \in Runs, ok \in BOOLEAN, ne \in BOOLEAN : DescribeGenerated(r, ok, ne)
  \/ \E r \in Runs, ok \in BOOLEAN : DescribePut(r, ok)
  \/ \E r \in Runs, ok \in BOOLEAN, ne \in BOOLEAN : ReviewGenerated(r, ok, ne)
  \/ \E r \in Runs, ok \in BOOLEAN : ReviewPosted(r, ok)
  \/ \E r \in Runs : InlineFailed(r)
  \/ \E r \in Runs, n \in 0..MaxItems : InlineGenerated(r, ItemList(n))
  \/ \E r \in Runs, resp \in Responses : PostResponse(r, resp)
  \/ \E r \in Runs : BackoffDone(r)
  \/ \E r \in Runs : PacingDone(r)
  \/ \E r \in Runs : Record(r)

Spec == Init /\ [][Next]_vars

\* ------------------------------------------------------------ SpecLimiter
\* Runs whose generation engine is still working, sharing one limiter.
LimiterStart(n) ==
  /\ running = 0
  /\ queue = <<>>
  /\ microtasks = <<>>
  /\ pc = [r \in Runs |-> IF r <= n THEN "inline_gen" ELSE "off"]
  /\ envMax = <<>>
  /\ inline = [r \in Runs |-> <<>>]
  /\ cap = [r \in Runs |-> 0]
  /\ i = [r \in Runs |-> 0]
  /\ posted = [r \in Runs |-> <<>>]
  /\ attempt = [r \in Runs |-> 0]
  /\ delay = [r \in Runs |-> initialDelay]
  /\ lastError = [r \in Runs |-> NoError]
  /\ result = [r \in Runs |-> NoError]
  /\ env = AllOn
  /\ flags = [r \in Runs |-> AllOn]
  /\ prObj = [r \in Runs |-> FALSE]
  /\ started = [r \in Runs |-> {"describe", "review", "inline"}]
  /\ failed = [r \in Runs |-> "none"]
  /\ faults = LimiterFaults
  /\ parsed = <<>>
  /\ fileMap = NoFiles
  /\ validated = <<>>
  /\ sources = <<>>
  /\ phase = "none"
  /\ log = [r \in Runs |-> <<>>]
  /\ waitOrder = <<>>
  /\ PureIdle
  /\ query = [r \in Runs |-> NoQuery]
  /\ request = [r \in Runs |-> "accepted"]
  /\ response = [r \in Runs |-> <<Ack>>]
  /\ DescribeIdle

InitLimiter == LimiterStart(LimiterRuns)

NextLimiter ==
  \/ \E r \in Runs : \E n \in 1..(IF r <= LimiterReturning THEN 2 ELSE 1) :
        \* the runs are alike until their items arrive: let them arrive by id
        /\ \A q \in 1..(r - 1) : pc[q] # "inline_gen"
        /\ InlineGenerated(r, ItemList(n))
  \/ \E r \in Runs : Woken(r)
  \/ \E r \in Runs, resp \in LimiterResponses : PostResponse(r, resp)
  \/ \E r \in Runs : BackoffDone(r)
  \/ \E r \in Runs : PacingDone(r)
  \/ \E r \in Runs : Record(r)

SpecLimiter == InitLimiter /\ [][NextLimiter]_vars

\* -------------------------------------------------------- claims on Spec
RetryableStatuses == {429, 502, 503, 504}
IsSuccess(o) == DOMAIN o = {"path", "to", "id"}
IsFailure(o) == DOMAIN o = {"path", "to", "error"}
\* the run has asked the limiter for a slot for its current item
AsksForSlot(r) == pc[r] \in {"waiting", "woken"}
\* the items the run has called execute for
Attempted(r) == Len(log[r]) + (IF AsksForSlot(r) THEN 1 ELSE 0)

\* C2: a run attempts only the first min(items.length, configured max)
\* items, and never more items than the configured maximum.
C2_OnlyFirstCapAttempted ==
  \A r \in Runs :
    /\ Attempted(r) <= Min(Len(inline[r]), ConfiguredMax)
    /\ Attempted(r) <= ConfiguredMax
    /\ Len(posted[r]) <= Attempted(r)
    /\ pc[r] \in {"posting", "backoff", "pacing", "returned", "caught"}
         => i[r] + 1 = Attempted(r)

\* a finished run whose list was longer than the configured maximum
C2_WitnessListCut ==
  \E r \in Runs :
    /\ pc[r] = "done"
    /\ Len(inline[r]) > ConfiguredMax
    /\ ConfiguredMax >= 1
    /\ Len(posted[r]) = ConfiguredMax

\* C3: when the delivery of a run finishes, there is one outcome per
\* attempted item, outcome k names the path and line of item k, and each
\* outcome is a success with an id or a failure with an error.
C3_OutcomesMatchItemsInOrder ==
  \A r \in Runs : pc[r] = "done" =>
    /\ Len(posted[r]) = Min(Len(inline[r]), ConfiguredMax)
    /\ Len(posted[r]) = Len(log[r])
    /\ \A k \in 1..Len(posted[r]) :
         /\ posted[r][k].path = inline[r][k].path
         /\ posted[r][k].to = inline[r][k].to
         /\ IsSuccess(posted[r][k]) \/ IsFailure(posted[r][k])

\* a finished run whose two items needed different numbers of attempts
C3_WitnessDifferentRetries ==
  \E r \in Runs :
    /\ pc[r] = "done"
    /\ Len(posted[r]) = 2
    /\ log[r][1].calls > log[r][2].calls
    /\ IsFailure(posted[r][1]) /\ IsSuccess(posted[r][2])

\* C4: a failed post yields a failure outcome for its own item only, the
\* run goes on, and every later item below cap is still attempted.
C4_FailureDoesNotAbort ==
  \A r \in Runs : \A k \in 1..Len(posted[r]) :
    IsFailure(posted[r][k]) =>
      /\ pc[r] # "aborted"
      /\ ~log[r][k].paced
      /\ \A m \in 1..Len(posted[r]) : log[r][m].paced => IsSuccess(posted[r][m])
      /\ k < Min(Len(inline[r]), ConfiguredMax) => Attempted(r) > k
      /\ pc[r] = "done" => Attempted(r) = Min(Len(inline[r]), ConfiguredMax)

\* the first item failed and the second was still posted
C4_WitnessLaterItemPosted ==
  \E r \in Runs :
    /\ Len(posted[r]) >= 2
    /\ IsFailure(posted[r][1])
    /\ IsSuccess(posted[r][2])

\* C5: a failure of the description task does not keep the enabled review
\* and inline tasks from running, nor a failure of the review task the
\* inline task.
C5_TasksIndependent ==
  \A r \in Runs : pc[r] = "aborted" =>
    /\ (failed[r] = "describe" /\ flags[r].review) => "review" \in started[r]
    /\ (failed[r] \in {"describe", "review"} /\ flags[r].inline)
         => "inline" \in started[r]

\* C6: a post that fails every time with status 429, 502, 503 or 504 is
\* invoked exactly maxRetries + 1 = 4 times and then recorded as a failure;
\* no post is invoked a fifth time.
C6_RetryableFailsAfterFourCalls ==
  \A r \in Runs : \A k \in 1..Len(log[r]) :
    /\ log[r][k].calls <= maxRetries + 1
    /\ log[r][k].waits <= maxRetries
    /\ k <= Len(posted[r]) /\ IsFailure(posted[r][k])
         /\ posted[r][k].error[1] \in RetryableStatuses
         => log[r][k].calls = maxRetries + 1 /\ log[r][k].waits = maxRetries

\* a post recorded as failed with 503 after four calls
C6_WitnessExhausted ==
  \E r \in Runs : \E k \in 1..Len(posted[r]) :
    /\ IsFailure(posted[r][k])
    /\ posted[r][k].error[1] = 503
    /\ log[r][k].calls = 4

\* C7: a post that fails with a status outside 429, 502, 503, 504 is called
\* once and recorded as a failure with no backoff wait, whatever the body:
\* after such a failure the post is neither waiting to retry nor called again.
C7_NonRetryableStatusOnce ==
  \A r \in Runs :
    (/\ ~lastError[r].ok
     /\ lastError[r].status # NoStatus
     /\ lastError[r].status \notin RetryableStatuses)
      => pc[r] \notin {"backoff", "posting", "pacing"}

\* ------------------------------------------------------------ the diff parser
\* A line of the diff text is the sequence of its tokens; the tokens are cut
\* where the parser's prefix tests and patterns look.
StartsWith(line, prefix) ==
  /\ Len(line) >= Len(prefix)
  /\ SubSeq(line, 1, Len(prefix)) = prefix

\* the decimal numerals the hunk headers of the model are written with
NumeralValue == ("0" :> 0) @@ ("1" :> 1) @@ ("2" :> 2) @@ ("5" :> 5) @@ ("6" :> 6)
                  @@ ("10" :> 10) @@ ("12" :> 12)
Numerals == DOMAIN NumeralValue
\* parseInt(s, 10)
parseInt(s) == NumeralValue[s]
\* `${n}`
Numeral(n) == CHOOSE s \in Numerals : NumeralValue[s] = n

FileMarker(p) == <<"diff --git", " a/", p, " b/", p>>
HunkHeader(os, ol, ns, nl) == <<"@@", " -", os, ",", ol, " +", ns, ",", nl, " @@">>
HunkHeaderNoCounts(os, ns) == <<"@@", " -", os, " +", ns, " @@">>
BadHeader == <<"@@", " garbage">>
Added == <<"+", "a">>
Deleted == <<"-", "b">>
Context == <<" ", "c">>
TriplePlus == <<"+", "+", "+", "x">>
TripleMinus == <<"-", "-", "-", "y">>
Empty == <<>>
NoNewline == <<"\\", " No newline at end of file">>

\* line.match(/diff --git a\/(.+?) b\/(.+)/): match[2], or "" without a match
PathOf(line) ==
  IF Len(line) = 5 /\ line[2] = " a/" /\ line[4] = " b/" THEN line[5] ELSE ""

\* line.match(/@@ -(\d+)(?:,(\d+))? \+(\d+)(?:,(\d+))? @@(.*)/)
HunkMatch(line) ==
  LET hasOld == Len(line) >= 4 /\ line[4] = ","
      p == IF hasOld THEN 6 ELSE 4
      hasNew == Len(line) >= p + 2 /\ line[p + 2] = ","
      e == IF hasNew THEN p + 4 ELSE p + 2
      matched == /\ Len(line) >= e
                 /\ line[1] = "@@"
                 /\ line[2] = " -"
                 /\ line[3] \in Numerals
                 /\ hasOld => line[5] \in Numerals
                 /\ line[p] = " +"
                 /\ line[p + 1] \in Numerals
                 /\ hasNew => line[p + 3] \in Numerals
                 /\ line[e] = " @@"
  IN IF ~matched THEN [matched |-> FALSE]
     ELSE [matched |-> TRUE,
           hunk |-> [oldStart |-> parseInt(line[3]),
                     oldLines |-> parseInt(IF hasOld THEN line[5] ELSE "1"),
                     newStart |-> parseInt(line[p + 1]),
                     newLines |-> parseInt(IF hasNew THEN line[p + 3] ELSE "1"),
                     header |-> SubSeq(line, e + 1, Len(line)),
                     lines |-> <<>>]]

IsAddition(line) == StartsWith(line, <<"+">>) /\ ~StartsWith(line, <<"+", "+", "+">>)
IsDeletion(line) == StartsWith(line, <<"-">>) /\ ~StartsWith(line, <<"-", "-", "-">>)

\* The state of parseDiff's loop.  currentFile is <<>> (null) or <<file>>.
\* Hunks are objects: heap holds them, currentHunk and the hunks arrays hold
\* references (indices into heap, 0 for null), so that a hunk that was
\* pushed and is still currentHunk keeps receiving lines.
ParseStart ==
  [files |-> <<>>, currentFile |-> <<>>, currentHunk |-> 0, heap |-> <<>>,
   totalAdditions |-> 0, totalDeletions |-> 0]

\* if (currentFile && currentHunk) currentFile.hunks.push(currentHunk)
PushHunk(st) ==
  IF st.currentFile # <<>> /\ st.currentHunk # 0
  THEN [st EXCEPT !.currentFile[1].hunks = Append(@, st.currentHunk)]
  ELSE st

\* if (currentFile) files.push(currentFile)
PushFile(st) ==
  IF st.currentFile # <<>>
  THEN [st EXCEPT !.files = Append(@, st.currentFile[1])]
  ELSE st

\* one iteration of the loop over the lines
ParseLine(st, line) ==
  IF StartsWith(line, <<"diff --git">>)
  THEN LET pushed == PushHunk(st)
           reset == IF st.currentFile # <<>> /\ st.currentHunk # 0
                    THEN [pushed EXCEPT !.currentHunk = 0] ELSE pushed
       IN [PushFile(reset) EXCEPT
             !.currentFile = <<[path |-> PathOf(line), hunks |-> <<>>,
                                additions |-> 0, deletions |-> 0]>>]
  ELSE IF StartsWith(line, <<"@@">>)
  THEN LET pushed == PushHunk(st)
           m == HunkMatch(line)
       IN IF m.matched
          THEN [pushed EXCEPT !.heap = Append(@, m.hunk),
                              !.currentHunk = Len(st.heap) + 1]
          ELSE pushed
  ELSE IF st.currentHunk # 0 /\ st.currentFile # <<>>
  THEN LET counted ==
             IF IsAddition(line)
             THEN [st EXCEPT !.currentFile[1].additions = @ + 1,
                             !.totalAdditions = @ + 1]
             ELSE IF IsDeletion(line)
             THEN [st EXCEPT !.currentFile[1].deletions = @ + 1,
                             !.totalDeletions = @ + 1]
             ELSE st
       IN [counted EXCEPT !.heap[st.currentHunk].lines = Append(@, line)]
  ELSE st

RECURSIVE ParseFrom(_, _, _)
ParseFrom(lines, k, st) ==
  IF k > Len(lines) THEN st ELSE ParseFrom(lines, k + 1, ParseLine(st, lines[k]))

\* parseDiff, on the lines of the text; the result holds the hunks themselves
parseDiff(lines) ==
  LET st == PushFile(PushHunk(ParseFrom(lines, 1, ParseStart))) IN
  [files |-> [f \in 1..Len(st.files) |->
                [st.files[f] EXCEPT
                   !.hunks = [h \in 1..Len(st.files[f].hunks) |->
                                st.heap[st.files[f].hunks[h]]]]],
   totalAdditions |-> st.totalAdditions,
   totalDeletions |-> st.totalDeletions]

\* getModifiedLineNumbers: the loop over the lines of one hunk, from line k
\* on, with newLineNum = n
RECURSIVE HunkModifiedFrom(_, _, _)
HunkModifiedFrom(lines, k, n) ==
  IF k > Len(lines) THEN <<>>
  ELSE IF IsAddition(lines[k]) THEN <<n>> \o HunkModifiedFrom(lines, k + 1, n + 1)
  ELSE IF ~StartsWith(lines[k], <<"-">>) THEN HunkModifiedFrom(lines, k + 1, n + 1)
  ELSE HunkModifiedFrom(lines, k + 1, n)

HunkModified(hunk) == HunkModifiedFrom(hunk.lines, 1, hunk.newStart)

RECURSIVE ModifiedFromHunk(_, _)
ModifiedFromHunk(hunks, h) ==
  IF h > Len(hunks) THEN <<>>
  ELSE HunkModified(hunks[h]) \o ModifiedFromHunk(hunks, h + 1)

getModifiedLineNumbers(file) == ModifiedFromHunk(file.hunks, 1)

\* formatDiffWithLineNumbers: the loop over the lines of one hunk, from line
\* k on, with newLineNum = n; acc holds newContentLines and oldContentLines
RECURSIVE FormatLinesFrom(_, _, _, _)
FormatLinesFrom(lines, k, n, acc) ==
  IF k > Len(lines) THEN acc
  ELSE IF IsAddition(lines[k])
  THEN FormatLinesFrom(lines, k + 1, n + 1,
         [acc EXCEPT !.new = Append(@, [lineNum |-> n, content |-> lines[k]])])
  ELSE IF IsDeletion(lines[k])
  THEN FormatLinesFrom(lines, k + 1, n, [acc EXCEPT !.old = Append(@, lines[k])])
  ELSE IF ~StartsWith(lines[k], <<"-", "-", "-">>)
          /\ ~StartsWith(lines[k], <<"+", "+", "+">>)
  THEN FormatLinesFrom(lines, k + 1, n + 1,
         [acc EXCEPT !.new = Append(@, [lineNum |-> n, content |-> lines[k]]),
                     !.old = Append(@, lines[k])])
  ELSE FormatLinesFrom(lines, k + 1, n, acc)

HunkContent(hunk) ==
  FormatLinesFrom(hunk.lines, 1, hunk.newStart, [new |-> <<>>, old |-> <<>>])

\* a section of the formatter's output: what it is, and for a line of a new
\* hunk the number printed before the content
Section(kind, num, text) == [kind |-> kind, num |-> num, text |-> text]

\* if (hasAdditions || hasDeletions)
PrintsAlways(hasAdditions, hasDeletions) == TRUE
Prints(hasAdditions, hasDeletions) == hasAdditions \/ hasDeletions

\* the sections one hunk contributes
FormatHunk(hunk) ==
  LET c == HunkContent(hunk)
      hasAdditions == \E k \in 1..Len(c.new) : StartsWith(c.new[k].content, <<"+">>)
      hasDeletions == \E k \in 1..Len(c.old) : StartsWith(c.old[k], <<"-">>)
      hunkHeader == HunkHeader(Numeral(hunk.oldStart), Numeral(hunk.oldLines),
                               Numeral(hunk.newStart), Numeral(hunk.newLines))
                      \o hunk.header
  IN IF ~Prints(hasAdditions, hasDeletions) THEN <<>>
     ELSE <<Section("header", 0, hunkHeader), Section("new_marker", 0, <<>>)>>
          \o [k \in 1..Len(c.new) |-> Section("new", c.new[k].lineNum, c.new[k].content)]
          \o (IF hasDeletions
              THEN <<Section("old_marker", 0, <<>>)>>
                   \o [k \in 1..Len(c.old) |-> Section("old", 0, c.old[k])]
              ELSE <<>>)

RECURSIVE FormatHunksFrom(_, _)
FormatHunksFrom(hunks, h) ==
  IF h > Len(hunks) THEN <<>>
  ELSE FormatHunk(hunks[h]) \o FormatHunksFrom(hunks, h + 1)

RECURSIVE FormatFilesFrom(_, _)
FormatFilesFrom(files, f) ==
  IF f > Len(files) THEN <<>>
  ELSE <<Section("file", 0, <<files[f].path>>)>>
       \o FormatHunksFrom(files[f].hunks, 1)
       \o FormatFilesFrom(files, f + 1)

formatDiffWithLineNumbers(lines) == FormatFilesFrom(parseDiff(lines).files, 1)

\* runClaudeInline: the map from each file's path to the set of its modified
\* lines; a later file with the same path replaces the earlier entry
FileMapOf(lines) ==
  LET files == parseDiff(lines).files
      paths == {files[f].path : f \in 1..Len(files)}
      last(p) == CHOOSE f \in 1..Len(files) :
                   /\ files[f].path = p
                   /\ \A g \in (f + 1)..Len(files) : files[g].path # p
      lineSet(f) == LET ls == getModifiedLineNumbers(files[f])
                    IN {ls[k] : k \in 1..Len(ls)}
  IN [p \in paths |-> lineSet(last(p))]

\* ---------------------------------------------------------- the validator
\* A JSON value as JavaScript sees it: t is its kind ("null", "number",
\* "string", "object", or "undefined" for a missing property) and v its
\* value.  An object candidate carries the suggestion's properties.
Undef == [t |-> "undefined", v |-> 0]
Null == [t |-> "null", v |-> 0]
Num(n) == [t |-> "number", v |-> n]
Str(x) == [t |-> "string", x |-> x]
Suggestion(file, end, label, score) ==
  [t |-> "object",
   relevant_file |-> file,
   relevant_lines_start |-> Num(10),
   relevant_lines_end |-> end,
   suggestion_content |-> Str("text"),
   existing_code |-> Undef,
   improved_code |-> Undef,
   label |-> label,
   score |-> score]

\* typeof x
TypeOf(x) == IF x.t = "null" THEN "object" ELSE x.t
\* x.name: undefined on a value without that property
Prop(x, name) == IF x.t = "object" THEN x[name] ELSE Undef
\* reading a property of null throws a TypeError
PropThrows(x) == x.t = "null"

isValidSuggestion(obj) ==
  /\ TypeOf(obj) = "object"
  /\ TypeOf(Prop(obj, "relevant_file")) = "string"
  /\ TypeOf(Prop(obj, "relevant_lines_start")) = "number"
  /\ TypeOf(Prop(obj, "relevant_lines_end")) = "number"
  /\ TypeOf(Prop(obj, "suggestion_content")) = "string"
  /\ TypeOf(Prop(obj, "label")) = "string"
  /\ TypeOf(Prop(obj, "score")) = "number"
  /\ Prop(obj, "score").v >= 1
  /\ Prop(obj, "score").v <= 10

\* if (suggestion.score < 6) continue
BelowThresholdOffByTwo(s) == s.score.v < ScoreThreshold - 2
BelowThreshold(s) == s.score.v < ScoreThreshold

\* the file and line checks of src/src/claude.ts
InDiffFileOnly(s, fm) == s.relevant_file.x \in DOMAIN fm
InDiff(s, fm) ==
  /\ s.relevant_file.x \in DOMAIN fm
  /\ s.relevant_lines_end.v \in fm[s.relevant_file.x]

\* "⭐".repeat(Math.min(Math.ceil(score / 2), 5))
Stars(score) == Min((score + 1) \div 2, 5)

Truthy(x) == x.t = "string" /\ x.x # ""

formatInlineComment(s) ==
  [label |-> s.label.x,
   stars |-> Stars(s.score.v),
   body |-> s.suggestion_content.x,
   blocks |-> IF Truthy(s.existing_code) /\ Truthy(s.improved_code)
              THEN <<"existing", "improved">>
              ELSE IF Truthy(s.improved_code) THEN <<"suggested">> ELSE <<>>]

ItemOf(s) ==
  [path |-> s.relevant_file.x, to |-> s.relevant_lines_end.v,
   message |-> formatInlineComment(s)]

\* parsed.slice(0, 25)
SliceAll(arr) == arr
Slice(arr) == SubSeq(arr, 1, Min(Len(arr), MaxCandidates))

\* The validation loop from candidate k on; acc holds the indices accepted
\* so far.  strict: the file and line checks are made.  A TypeError leaves
\* the loop for the catch block.
RECURSIVE ValidateFrom(_, _, _, _, _)
ValidateFrom(arr, fm, strict, k, acc) ==
  IF k > Len(arr) THEN [threw |-> FALSE, acc |-> acc]
  ELSE IF PropThrows(arr[k]) THEN [threw |-> TRUE, acc |-> acc]
  ELSE IF ~isValidSuggestion(arr[k]) THEN ValidateFrom(arr, fm, strict, k + 1, acc)
  ELSE IF BelowThreshold(arr[k]) THEN ValidateFrom(arr, fm, strict, k + 1, acc)
  ELSE IF strict /\ ~InDiff(arr[k], fm) THEN ValidateFrom(arr, fm, strict, k + 1, acc)
  ELSE ValidateFrom(arr, fm, strict, k + 1, Append(acc, k))

\* the indices of the candidates whose items runClaudeInline returns
AcceptedBy(arr, fm, strict) ==
  LET res == ValidateFrom(Slice(arr), fm, strict, 1, <<>>) IN
  IF res.threw THEN <<>> ELSE res.acc

\* src/src/claude.ts, from the parsed array on
runClaudeInline(arr, fm) ==
  LET acc == AcceptedBy(arr, fm, TRUE) IN [k \in 1..Len(acc) |-> ItemOf(arr[acc[k]])]

\* src/unnamed/part_002, from the extracted array on: no file and line checks
runClaudeInlineLenient(arr) ==
  LET acc == AcceptedBy(arr, NoFiles, FALSE) IN
  [k \in 1..Len(acc) |-> ItemOf(arr[acc[k]])]

\* ----------------------------------------------------------- SpecValidate
\* The candidates the arrays are made of: the elements JSON can hold that the
\* validator tells apart.
GoodFile == Str("f")
GoodLine == Num(12)
GoodLabel == Str("bug_risk")
Candidates ==
  {Null, Num(7)}
    \cup {Suggestion(GoodFile, GoodLine, GoodLabel, sc) :
            sc \in {Num(0), Num(5), Num(6), Num(10), Num(11), Str("8"), Undef}}
    \cup {Suggestion(GoodFile, Num(99), GoodLabel, Num(8)),
          Suggestion(Str("g"), GoodLine, GoodLabel, Num(8)),
          Suggestion(Undef, GoodLine, GoodLabel, Num(8)),
          Suggestion(GoodFile, GoodLine, Str("other"), Num(8)),
          Suggestion(GoodFile, Num(99), GoodLabel, Num(5))}
    \cup {[Suggestion(GoodFile, GoodLine, GoodLabel, Num(8))
             EXCEPT !.existing_code = c[1], !.improved_code = c[2]] :
            c \in {<<Str("old"), Undef>>, <<Undef, Str("new")>>,
                   <<Str("old"), Str("new")>>}}

RECURSIVE SeqsUpTo(_, _)
SeqsUpTo(S, n) ==
  IF n = 0 THEN {<<>>}
  ELSE LET shorter == SeqsUpTo(S, n - 1) IN
       shorter \cup {Append(q, x) : q \in {t \in shorter : Len(t) = n - 1}, x \in S}

\* The diffs the strict validator is run against: file "f" with the hunk
\* @@ -10,5 +10,6 @@ whose added line is line 12, alone and followed by a
\* file "g" whose line 12 is replaced.
ExampleDiff ==
  <<FileMarker("f"), HunkHeader("10", "5", "10", "6"),
    Context, Context, Added, Context, Context, Context>>
ExampleDiffs ==
  {ExampleDiff,
   ExampleDiff \o <<FileMarker("g"), HunkHeaderNoCounts("12", "12"), Deleted, Added>>}
FileMaps == {FileMapOf(d) : d \in ExampleDiffs}

\* Arrays longer than the cap: a run of accepted candidates before the
\* candidates that vary.
Filler == Suggestion(GoodFile, GoodLine, GoodLabel, Num(9))
Repeat(x, n) == [k \in 1..n |-> x]
PrefixLengths == {0, MaxCandidates - 1, MaxCandidates}
ParsedArrays ==
  {Repeat(Filler, n) \o t : n \in PrefixLengths, t \in SeqsUpTo(Candidates, MaxCands)}

InitValidate ==
  /\ running = 0
  /\ queue = <<>>
  /\ microtasks = <<>>
  /\ pc = [r \in Runs |-> "off"]
  /\ envMax = <<>>
  /\ inline = [r \in Runs |-> <<>>]
  /\ cap = [r \in Runs |-> 0]
  /\ i = [r \in Runs |-> 0]
  /\ posted = [r \in Runs |-> <<>>]
  /\ attempt = [r \in Runs |-> 0]
  /\ delay = [r \in Runs |-> initialDelay]
  /\ lastError = [r \in Runs |-> NoError]
  /\ result = [r \in Runs |-> NoError]
  /\ env = AllOn
  /\ flags = [r \in Runs |-> AllOn]
  /\ prObj = [r \in Runs |-> FALSE]
  /\ started = [r \in Runs |-> {}]
  /\ failed = [r \in Runs |-> "none"]
  /\ faults = 0
  /\ parsed \in ParsedArrays
  /\ fileMap \in FileMaps
  /\ validated = <<>>
  /\ sources = <<>>
  /\ phase = "input"
  /\ log = [r \in Runs |-> <<>>]
  /\ waitOrder = <<>>
  /\ PureIdle
  /\ query = [r \in Runs |-> NoQuery]
  /\ request = [r \in Runs |-> "none"]
  /\ response = [r \in Runs |-> <<>>]
  /\ DescribeIdle

notPure == <<running, queue, microtasks, pc, envMax, inline, cap, i, posted,
             attempt, delay, lastError, result, env, flags, prObj, started,
             failed, faults, log, waitOrder, query, request, response,
             describeVars>>

ValidateStrict ==
  /\ phase = "input"
  /\ validated' = runClaudeInline(parsed, fileMap)
  /\ sources' = AcceptedBy(parsed, fileMap, TRUE)
  /\ phase' = "strict"
  /\ UNCHANGED <<parsed, fileMap, diffVars, retryVars, notPure, extractVars>>

ValidateLenient ==
  /\ phase = "input"
  /\ validated' = runClaudeInlineLenient(parsed)
  /\ sources' = AcceptedBy(parsed, NoFiles, FALSE)
  /\ phase' = "lenient"
  /\ UNCHANGED <<parsed, fileMap, diffVars, retryVars, notPure, extractVars>>

NextValidate == ValidateStrict \/ ValidateLenient

SpecValidate == InitValidate /\ [][NextValidate]_vars

\* ------------------------------------------------ claims on SpecValidate
\* C10: the validator emits no item for a candidate whose score is below 6;
\* every item it emits comes from a candidate with 6 <= score <= 10.
C10_NoItemBelowThreshold ==
  phase \in {"strict", "lenient"} =>
    /\ Len(validated) = Len(sources)
    /\ \A k \in 1..Len(sources) :
         LET c == parsed[sources[k]] IN
         /\ c.t = "object"
         /\ c.score.t = "number"
         /\ c.score.v >= 6 /\ c.score.v <= 10
         /\ validated[k].path = c.relevant_file.x
         /\ validated[k].to = c.relevant_lines_end.v

\* an array with a score-5 candidate and a score-6 candidate: one item out
C10_WitnessLowScoreDropped ==
  /\ phase \in {"strict", "lenient"}
  /\ Len(parsed) = 2
  /\ parsed[1] = Suggestion(GoodFile, GoodLine, GoodLabel, Num(5))
  /\ parsed[2] = Suggestion(GoodFile, GoodLine, GoodLabel, Num(6))
  /\ sources = <<2>>

\* the candidate passes the schema, threshold and (strict) line checks
Passes(c, strict) ==
  /\ ~PropThrows(c)
  /\ isValidSuggestion(c)
  /\ ~BelowThreshold(c)
  /\ strict => InDiff(c, fileMap)

\* C11: with the strict validator every emitted item names a file of the
\* diff and a line of that file's valid-line set; a candidate whose file is
\* not in the diff or whose end line is not in the set is rejected, and an
\* otherwise valid candidate on the added line 12 of "f" is accepted.
C11_StrictItemsOnValidLines ==
  phase = "strict" =>
    /\ \A k \in 1..Len(validated) :
         /\ validated[k].path \in DOMAIN fileMap
         /\ validated[k].to \in fileMap[validated[k].path]
    /\ \A k \in 1..Len(parsed) :
         LET c == parsed[k] IN
         (c.t = "object" /\ c.relevant_file.t = "string"
            /\ c.relevant_lines_end.t = "number"
            /\ (c.relevant_file.x \notin DOMAIN fileMap
                  \/ c.relevant_lines_end.v \notin fileMap[c.relevant_file.x]))
           => ~InSeq(sources, k)
    /\ \A k \in 1..Min(Len(parsed), MaxCandidates) :
         (parsed[k].t = "object"
            /\ isValidSuggestion(parsed[k]) /\ ~BelowThreshold(parsed[k])
            /\ parsed[k].relevant_file = GoodFile
            /\ parsed[k].relevant_lines_end = GoodLine
            /\ \A j \in 1..Min(Len(parsed), MaxCandidates) : ~PropThrows(parsed[j]))
           => InSeq(sources, k)

\* a candidate on line 99 is dropped and the one on line 12 is kept
C11_WitnessLine99Rejected ==
  /\ phase = "strict"
  /\ parsed = <<Suggestion(GoodFile, Num(99), GoodLabel, Num(8)),
                Suggestion(GoodFile, GoodLine, GoodLabel, Num(6))>>
  /\ sources = <<2>>
  /\ validated[1].to = 12

\* C12: a candidate that fails validation (a null element included) is
\* skipped alone; every candidate among the first 25 that passes validation
\* is emitted.
C12_InvalidSkippedIndividually ==
  phase \in {"strict", "lenient"} =>
    \A k \in 1..Min(Len(parsed), MaxCandidates) :
      Passes(parsed[k], phase = "strict") => InSeq(sources, k)

\* label: "bug_risk" | "security" | "performance" | "code_smell" | ...
Labels ==
  {"bug_risk", "security", "performance", "code_smell", "best_practice", "todo_cleanup"}

\* C18: every emitted item comes from a suggestion whose label is one of the
\* six labels; a candidate with another label is rejected.
C18_LabelInClosedSet ==
  phase \in {"strict", "lenient"} =>
    \A k \in 1..Len(sources) : parsed[sources[k]].label.x \in Labels

\* C19: the output is an order-preserving subsequence of the first 25
\* candidates: sources is strictly increasing, no source index exceeds 25,
\* at most 25 items are emitted, and item k is the item of its candidate.
C19_OrderPreservingFirst25 ==
  phase \in {"strict", "lenient"} =>
    /\ Len(validated) = Len(sources)
    /\ Len(validated) <= MaxCandidates
    /\ \A k \in 1..Len(sources) :
         /\ sources[k] \in 1..Min(Len(parsed), MaxCandidates)
         /\ validated[k] = ItemOf(parsed[sources[k]])
         /\ k > 1 => sources[k - 1] < sources[k]

\* an array of more than 25 candidates whose 26th passes validation: 25
\* items come out, in order, and the 26th candidate gives none
C19_WitnessBeyondCap ==
  /\ phase \in {"strict", "lenient"}
  /\ Len(parsed) > MaxCandidates
  /\ Passes(parsed[MaxCandidates + 1], phase = "strict")
  /\ Len(validated) = MaxCandidates
  /\ parsed[MaxCandidates] # Filler
  /\ sources[MaxCandidates] = MaxCandidates

\* C37: the message of a returned item holds a code block for existing_code
\* exactly when the candidate carries existing_code, and a code block for
\* improved_code exactly when it carries improved_code, each independently
\* of the other.
C37_CodeBlocksIndependent ==
  phase \in {"strict", "lenient"} =>
    \A k \in 1..Len(sources) :
      /\ Truthy(parsed[sources[k]].existing_code)
           <=> Includes(validated[k].message.blocks, "existing")
      /\ Truthy(parsed[sources[k]].improved_code)
           <=> (\/ Includes(validated[k].message.blocks, "improved")
                \/ Includes(validated[k].message.blocks, "suggested"))

\* ---------------------------------------------------------------- SpecDiff
\* every run is off: the state outside the function under study
AllOff ==
  /\ running = 0
  /\ queue = <<>>
  /\ microtasks = <<>>
  /\ pc = [r \in Runs |-> "off"]
  /\ envMax = <<>>
  /\ inline = [r \in Runs |-> <<>>]
  /\ cap = [r \in Runs |-> 0]
  /\ i = [r \in Runs |-> 0]
  /\ posted = [r \in Runs |-> <<>>]
  /\ attempt = [r \in Runs |-> 0]
  /\ delay = [r \in Runs |-> initialDelay]
  /\ lastError = [r \in Runs |-> NoError]
  /\ result = [r \in Runs |-> NoError]
  /\ env = AllOn
  /\ flags = [r \in Runs |-> AllOn]
  /\ prObj = [r \in Runs |-> FALSE]
  /\ started = [r \in Runs |-> {}]
  /\ failed = [r \in Runs |-> "none"]
  /\ faults = 0
  /\ parsed = <<>>
  /\ fileMap = NoFiles
  /\ validated = <<>>
  /\ sources = <<>>
  /\ log = [r \in Runs |-> <<>>]
  /\ waitOrder = <<>>
  /\ query = [r \in Runs |-> NoQuery]
  /\ request = [r \in Runs |-> "none"]
  /\ response = [r \in Runs |-> <<>>]
  /\ DescribeIdle

\* The lines the texts are made of: one of each kind the parser and the two
\* counting passes tell apart.
TheHeader == HunkHeader("10", "1", "10", "1")
DiffLines ==
  {FileMarker("f"), TheHeader, BadHeader, Added, Deleted, Context,
   TriplePlus, TripleMinus, Empty, NoNewline}
BodyLines == {Added, Deleted, Context, Empty, NoNewline}

\* any text of up to MaxDiffLines lines, and the texts that open with a file
\* marker and a hunk header followed by up to MaxDiffLines - 1 body lines
DiffTexts ==
  SeqsUpTo(DiffLines, MaxDiffLines)
    \cup {<<FileMarker("f"), TheHeader>> \o t : t \in SeqsUpTo(BodyLines, MaxDiffLines - 1)}

InitDiff ==
  /\ AllOff
  /\ ExtractIdle
  /\ phase = "input"
  /\ diffText \in DiffTexts
  /\ parsedDiff = NoParsedDiff
  /\ modifiedLines = <<>>
  /\ sections = <<>>
  /\ options = DefaultOptions
  /\ retry = RetryIdle
  /\ waits = <<>>

ParseDiff ==
  /\ phase = "input"
  /\ parsedDiff' = parseDiff(diffText)
  /\ phase' = "parsed"
  /\ UNCHANGED <<diffText, modifiedLines, sections, retryVars, parsed, fileMap,
                 validated, sources, notPure, extractVars>>

GetModifiedLines ==
  /\ phase = "parsed"
  /\ modifiedLines' = [f \in 1..Len(parsedDiff.files) |->
                         getModifiedLineNumbers(parsedDiff.files[f])]
  /\ phase' = "lines"
  /\ UNCHANGED <<diffText, parsedDiff, sections, retryVars, parsed, fileMap,
                 validated, sources, notPure, extractVars>>

FormatDiff ==
  /\ phase = "lines"
  /\ sections' = formatDiffWithLineNumbers(diffText)
  /\ phase' = "formatted"
  /\ UNCHANGED <<diffText, parsedDiff, modifiedLines, retryVars, parsed, fileMap,
                 validated, sources, notPure, extractVars>>

NextDiff == ParseDiff \/ GetModifiedLines \/ FormatDiff

SpecDiff == InitDiff /\ [][NextDiff]_vars

\* ---------------------------------------------------- claims on SpecDiff
Range(q) == {q[k] : k \in 1..Len(q)}
Count(q, Test(_)) == Cardinality({k \in 1..Len(q) : Test(q[k])})
IsContext(line) == StartsWith(line, <<" ">>)
NotOldSide(line) == ~StartsWith(line, <<"-">>)
NotNewSide(line) == ~StartsWith(line, <<"+">>)

\* the destination line number of line j of the hunk: its newStart plus the
\* lines before j that are not deletions
DestLine(hunk, j) == hunk.newStart + Count(SubSeq(hunk.lines, 1, j - 1), NotOldSide)

\* C13: the valid-line set of a parsed file holds the destination line number
\* of every added line and of every context line of every hunk.
C13_ValidLinesCoverAddedAndContext ==
  phase \in {"lines", "formatted"} =>
    \A f \in 1..Len(parsedDiff.files) :
      \A h \in 1..Len(parsedDiff.files[f].hunks) :
        LET hunk == parsedDiff.files[f].hunks[h] IN
        \A j \in 1..Len(hunk.lines) :
          (IsAddition(hunk.lines[j]) \/ IsContext(hunk.lines[j]))
            => DestLine(hunk, j) \in Range(modifiedLines[f])

RECURSIVE Concat(_, _)
Concat(qs, k) == IF k > Len(qs) THEN <<>> ELSE qs[k] \o Concat(qs, k + 1)

IsPrintedAddition(sec) == sec.kind = "new" /\ IsAddition(sec.text)
PrintedAdditions == SelectSeq(sections, IsPrintedAddition)

\* C14: the number the formatter prints before an added line is the number
\* the valid-line derivation gives that line, for every mix of lines.
C14_FormatterNumbersMatchValidLines ==
  phase = "formatted" =>
    [k \in 1..Len(PrintedAdditions) |-> PrintedAdditions[k].num]
      = Concat(modifiedLines, 1)

\* C15: every file of the result of parseDiff has at least one hunk.
C15_NoFileWithoutHunk ==
  phase # "input" =>
    \A f \in 1..Len(parsedDiff.files) : Len(parsedDiff.files[f].hunks) >= 1

IsBadHeader(line) == StartsWith(line, <<"@@">>) /\ ~HunkMatch(line).matched
EndsSkip(line) ==
  \/ StartsWith(line, <<"diff --git">>)
  \/ StartsWith(line, <<"@@">>) /\ HunkMatch(line).matched
FirstBad(text) == CHOOSE k \in 1..Len(text) :
                    IsBadHeader(text[k]) /\ \A m \in 1..(k - 1) : ~IsBadHeader(text[m])
\* the text without its first malformed hunk header and the lines after it
\* up to the next valid hunk header or file marker
WithoutSkipped(text) ==
  LET k == FirstBad(text)
      stops == {j \in (k + 1)..Len(text) : EndsSkip(text[j])} \cup {Len(text) + 1}
      j == CHOOSE x \in stops : \A y \in stops : x <= y
  IN SubSeq(text, 1, k - 1) \o SubSeq(text, j, Len(text))

\* C16: a malformed hunk header and the lines that follow it, up to the next
\* valid hunk header or file marker, leave no trace in the result: it is the
\* result for the text without them.
C16_MalformedHunkSkipped ==
  (phase # "input" /\ \E k \in 1..Len(diffText) : IsBadHeader(diffText[k]))
    => parsedDiff = parseDiff(WithoutSkipped(diffText))

\* a unified diff as diff writes it: a file marker, a hunk header, body lines
\* whose counts are the header's (the no-newline marker is not counted), and
\* possibly the empty last line that split gives a text ending in "\n"
IsBodyLine(line) == line \in {Added, Deleted, Context, NoNewline}
IsAdded(line) == line = Added
IsDeleted(line) == line = Deleted
IsCtx(line) == line = Context
WellFormed(text) ==
  /\ Len(text) >= 3
  /\ text[1] = FileMarker("f")
  /\ text[2] = TheHeader
  /\ LET n == IF text[Len(text)] = Empty THEN Len(text) - 1 ELSE Len(text)
         body == SubSeq(text, 3, n)
     IN /\ \A k \in 1..Len(body) : IsBodyLine(body[k])
        /\ body # <<>> /\ body[1] # NoNewline
        /\ Count(body, IsCtx) + Count(body, IsAdded) = HunkMatch(TheHeader).hunk.newLines
        /\ Count(body, IsCtx) + Count(body, IsDeleted) = HunkMatch(TheHeader).hunk.oldLines

\* C17: in every hunk parsed from a well-formed diff the stored lines of the
\* new side (context or added) number newLines, those of the old side
\* (context or deleted) number oldLines, and every derived destination line
\* number lies in newStart .. newStart + newLines - 1.
C17_HunkCountsMatchHeader ==
  (phase \in {"lines", "formatted"} /\ WellFormed(diffText)) =>
    \A f \in 1..Len(parsedDiff.files) :
      /\ \A h \in 1..Len(parsedDiff.files[f].hunks) :
           LET hunk == parsedDiff.files[f].hunks[h] IN
           /\ Count(hunk.lines, NotOldSide) = hunk.newLines
           /\ Count(hunk.lines, NotNewSide) = hunk.oldLines
           /\ \A n \in Range(HunkModified(hunk)) :
                n \in hunk.newStart..(hunk.newStart + hunk.newLines - 1)

IsOldSection(sec) == sec.kind = "old"
OldBlockLines == SelectSeq(sections, IsOldSection)

\* C21: the old-hunk blocks of the formatter's output list deleted lines
\* only: no context line and no added line appears in them.
C21_OldBlockOnlyDeletions ==
  phase = "formatted" =>
    \A k \in 1..Len(OldBlockLines) : IsDeletion(OldBlockLines[k].text)

\* all the hunks of the parsed diff, file after file
AllHunks == Concat([f \in 1..Len(parsedDiff.files) |-> parsedDiff.files[f].hunks], 1)
HasChange(hunk) ==
  \E j \in 1..Len(hunk.lines) : IsAddition(hunk.lines[j]) \/ IsDeletion(hunk.lines[j])
IsHeaderSection(sec) == sec.kind = "header"
IsNewMarker(sec) == sec.kind = "new_marker"

\* C22: the formatter emits a header and a new-hunk block for exactly the
\* hunks that hold an added or a deleted line; a hunk of context lines only
\* contributes nothing.
C22_HunkPrintedIffChanged ==
  phase = "formatted" =>
    /\ Len(SelectSeq(sections, IsHeaderSection)) = Len(SelectSeq(AllHunks, HasChange))
    /\ Len(SelectSeq(sections, IsNewMarker)) = Len(SelectSeq(AllHunks, HasChange))
    /\ (\A h \in 1..Len(AllHunks) : ~HasChange(AllHunks[h]))
         => \A k \in 1..Len(sections) : sections[k].kind = "file"

\* a file whose only hunk holds a context line: the file section alone
C22_WitnessContextOnlyHunkOmitted ==
  /\ phase = "formatted"
  /\ diffText = <<FileMarker("f"), TheHeader, Context>>
  /\ Len(sections) = 1

\* --------------------------------------------------------------- SpecRetry
\* One call of retryWithBackoff with options of the caller's choice, on a
\* function that fails or succeeds at each attempt.
OptionDelays == {1, 2, 5}
OptionMultipliers == {1, 2, 3}
OptionMaxDelays == {2, 4, 10}
RetryOptions ==
  [maxRetries : (-1)..MaxRetryOption, initialDelay : OptionDelays,
   maxDelay : OptionMaxDelays, backoffMultiplier : OptionMultipliers]

InitRetry ==
  /\ AllOff
  /\ ExtractIdle
  /\ phase = "input"
  /\ diffText = <<>>
  /\ parsedDiff = NoParsedDiff
  /\ modifiedLines = <<>>
  /\ sections = <<>>
  /\ options \in RetryOptions
  /\ retry = RetryIdle
  /\ waits = <<>>

retryRest == <<diffVars, options, phase, parsed, fileMap, validated, sources, notPure, extractVars>>

\* let lastError; let delay = initialDelay; for (let attempt = 0;
\* attempt <= maxRetries; ...: the first invocation of fn, unless the loop
\* condition fails at once and the function ends with throw lastError
RetryCall ==
  /\ retry.status = "none"
  /\ retry' = IF 0 <= options.maxRetries
              THEN [retry EXCEPT !.delay = options.initialDelay,
                                 !.status = "running", !.calls = 1]
              ELSE [retry EXCEPT !.delay = options.initialDelay,
                                 !.status = "thrown", !.error = retry.lastError]
  /\ UNCHANGED <<waits, retryRest>>

\* return await fn(): the value of this invocation is the call's value
AttemptSucceeds ==
  /\ retry.status = "running"
  /\ retry' = [retry EXCEPT !.status = "returned", !.result = retry.calls]
  /\ UNCHANGED <<waits, retryRest>>

\* the catch block with the sleep left out
AttemptFailsWithoutSleep(retryable) ==
  /\ retry.status = "running"
  /\ IF ~retryable \/ retry.attempt >= options.maxRetries
     THEN retry' = [retry EXCEPT !.status = "thrown", !.lastError = retry.calls,
                                 !.error = retry.calls]
     ELSE retry' = [retry EXCEPT !.status = "sleeping", !.lastError = retry.calls]
  /\ UNCHANGED <<waits, retryRest>>

\* the catch block: fn() rejected with an error that is retryable or not
AttemptFails(retryable) ==
  /\ retry.status = "running"
  /\ IF ~retryable \/ retry.attempt >= options.maxRetries
     THEN /\ retry' = [retry EXCEPT !.status = "thrown", !.lastError = retry.calls,
                                    !.error = retry.calls]
          /\ UNCHANGED waits
     ELSE /\ retry' = [retry EXCEPT !.status = "sleeping", !.lastError = retry.calls]
          /\ waits' = Append(waits, retry.delay)
  /\ UNCHANGED retryRest

\* sleep(delay) is over: the delay is updated, attempt++ and the loop
\* condition decide between the next invocation and throw lastError
SleepDone ==
  /\ retry.status = "sleeping"
  /\ retry' = IF retry.attempt + 1 <= options.maxRetries
              THEN [retry EXCEPT
                      !.attempt = retry.attempt + 1,
                      !.delay = Min(retry.delay * options.backoffMultiplier,
                                    options.maxDelay),
                      !.status = "running", !.calls = retry.calls + 1]
              ELSE [retry EXCEPT !.attempt = retry.attempt + 1,
                                 !.status = "thrown", !.error = retry.lastError]
  /\ UNCHANGED <<waits, retryRest>>

NextRetry ==
  \/ RetryCall
  \/ AttemptSucceeds
  \/ \E retryable \in BOOLEAN : AttemptFails(retryable)
  \/ SleepDone

SpecRetry == InitRetry /\ [][NextRetry]_vars

\* --------------------------------------------------- claims on SpecRetry
RECURSIVE Pow(_, _)
Pow(b, e) == IF e = 0 THEN 1 ELSE b * Pow(b, e - 1)

\* C20: whatever the options, every wait between two attempts is at most
\* maxDelay, and the k-th wait is
\* min(initialDelay * backoffMultiplier^(k-1), maxDelay).
C20_WaitsCappedAndGeometric ==
  \A k \in 1..Len(waits) :
    /\ waits[k] <= options.maxDelay
    /\ waits[k] = Min(options.initialDelay * Pow(options.backoffMultiplier, k - 1),
                      options.maxDelay)

\* C34: when the call has returned, after k invocations of the operation
\* (1 <= k <= maxRetries + 1), its value is the value of the k-th
\* invocation, it has waited exactly k - 1 times, and no step of the call
\* remains that could invoke the operation again.
C34_ReturnsKthResultAfterKCalls ==
  retry.status = "returned" =>
    /\ retry.calls \in 1..(options.maxRetries + 1)
    /\ retry.calls = retry.attempt + 1
    /\ retry.result = retry.calls
    /\ Len(waits) = retry.calls - 1
    /\ ~ENABLED NextRetry

\* the operation failed once with a retryable error and then succeeded
C34_WitnessSecondAttemptReturned ==
  /\ retry.status = "returned"
  /\ retry.calls = 2
  /\ retry.result = 2
  /\ Len(waits) = 1

\* C35: whatever maxRetries is, a finished call has invoked the operation
\* at least once and at most maxRetries + 1 times; when it throws, the error
\* is that of the last invocation and no wait follows that invocation.
C35_BoundedCallsLastErrorThrown ==
  retry.status \in {"returned", "thrown"} =>
    /\ 1 <= retry.calls
    /\ retry.calls <= options.maxRetries + 1
    /\ retry.status = "thrown" =>
         /\ retry.error = retry.calls
         /\ Len(waits) = retry.calls - 1

\* --------------------------------------------------------------- SpecFlags
\* One run with every query, up to the point where its tasks have been
\* started; the inline task finds nothing to post.
NextFlags ==
  \/ \E r \in Runs, q \in Queries : Webhook(r, q)
  \/ \E r \in Runs, kind \in RejectedKinds : WebhookRejected(r, kind)
  \/ \E r \in Runs, ok \in BOOLEAN : TokenDone(r, ok)
  \/ \E r \in Runs, ok \in BOOLEAN, m \in BOOLEAN : GetPRDone(r, ok, m)
  \/ \E r \in Runs, ok \in BOOLEAN : GetDiffDone(r, ok)
  \/ \E r \in Runs, ok \in BOOLEAN, ne \in BOOLEAN : DescribeGenerated(r, ok, ne)
  \/ \E r \in Runs, ok \in BOOLEAN : DescribePut(r, ok)
  \/ \E r \in Runs, ok \in BOOLEAN, ne \in BOOLEAN : ReviewGenerated(r, ok, ne)
  \/ \E r \in Runs, ok \in BOOLEAN : ReviewPosted(r, ok)
  \/ \E r \in Runs : InlineFailed(r)
  \/ \E r \in Runs : InlineGenerated(r, <<>>)

SpecFlags == Init /\ [][NextFlags]_vars

Tasks == {"describe", "review", "inline"}
\* the environment flag is "1" and the query parameter is not "false"
Wanted(r, t) == env[t] /\ query[r][t] # "false"

\* C28: a task is executed only if its environment flag is "1" and its query
\* parameter is not "false", and a run that reaches its end has executed
\* every such task; a query parameter never enables a task the environment
\* leaves disabled.
C28_TaskRunsIffFlagAndQuery ==
  \A r \in Runs : \A t \in Tasks :
    /\ t \in started[r] => Wanted(r, t)
    /\ (pc[r] = "done" /\ Wanted(r, t)) => t \in started[r]

\* describe=true with ENABLE_DESCRIBE unset, inline=false with ENABLE_INLINE
\* set: the run ends having executed the review task alone
C28_WitnessQueryCannotEnable ==
  \E r \in Runs :
    /\ pc[r] = "done"
    /\ query[r].describe = "true" /\ ~env.describe
    /\ query[r].inline = "false" /\ env.inline
    /\ started[r] = {"review"}

\* ---------------------------------------------------- more claims on Spec
\* C25: every webhook request gets exactly one response; for an accepted
\* pull-request event it is the acknowledgement, sent before the first
\* remote call of the background task, and nothing the background task meets
\* changes it or adds another.
C25_ExactlyOneResponse ==
  \A r \in Runs :
    /\ pc[r] \in {"off", "idle"} => response[r] = <<>>
    /\ pc[r] = "rejected" => response[r] = <<RejectionOf(request[r])>>
    /\ pc[r] \notin {"off", "idle", "rejected"} => response[r] = <<Ack>>

\* the diff could not be fetched, and a post failed: one acknowledgement each
C25_WitnessFailuresAfterAck ==
  \E r \in Runs :
    /\ response[r] = <<Ack>>
    /\ \/ pc[r] = "aborted" /\ failed[r] = "getDiff"
       \/ pc[r] = "done" /\ \E k \in 1..Len(posted[r]) : "error" \in DOMAIN posted[r][k]

\* ---------------------------------------------------------------- SpecRuns
\* Two webhook events for the same pull request: run 1 from its arrival on,
\* run 2 already at its inline task.
InitRuns ==
  /\ running = 0
  /\ queue = <<>>
  /\ microtasks = <<>>
  /\ pc = [r \in Runs |-> IF r = 1 THEN "idle" ELSE IF r = 2 THEN "inline_gen" ELSE "off"]
  /\ envMax = <<1>>
  /\ inline = [r \in Runs |-> <<>>]
  /\ cap = [r \in Runs |-> 0]
  /\ i = [r \in Runs |-> 0]
  /\ posted = [r \in Runs |-> <<>>]
  /\ attempt = [r \in Runs |-> 0]
  /\ delay = [r \in Runs |-> initialDelay]
  /\ lastError = [r \in Runs |-> NoError]
  /\ result = [r \in Runs |-> NoError]
  /\ env = AllOn
  /\ flags = [r \in Runs |-> IF r = 2 THEN AllOn
                             ELSE [describe |-> FALSE, review |-> FALSE, inline |-> FALSE]]
  /\ prObj = [r \in Runs |-> FALSE]
  /\ started = [r \in Runs |-> IF r = 2 THEN Tasks ELSE {}]
  /\ failed = [r \in Runs |-> "none"]
  /\ faults = LimiterFaults
  /\ parsed = <<>>
  /\ fileMap = NoFiles
  /\ validated = <<>>
  /\ sources = <<>>
  /\ phase = "none"
  /\ log = [r \in Runs |-> <<>>]
  /\ waitOrder = <<>>
  /\ PureIdle
  /\ query = [r \in Runs |-> NoQuery]
  /\ request = [r \in Runs |-> IF r = 2 THEN "accepted" ELSE "none"]
  /\ response = [r \in Runs |-> IF r = 2 THEN <<Ack>> ELSE <<>>]
  /\ DescribeIdle

SpecRuns == InitRuns /\ [][Next]_vars

\* ---------------------------------------------------- claims on SpecRuns
FetchSteps == {"token", "getPR", "getDiff"}
\* what belongs to run q alone
OfRun(q) == <<pc[q], inline[q], cap[q], i[q], posted[q], attempt[q], delay[q],
              lastError[q], result[q], flags[q], prObj[q], started[q], failed[q],
              log[q], query[q], request[q], response[q]>>

\* C26: a run whose token, PR or diff fetch fails executes none of its tasks
\* and posts nothing; the error ends in the background task's catch block,
\* and the step that fails leaves every other run, and the limiter, as they
\* were.
C26_FetchFailureEndsRunOnly ==
  [][\A r \in Runs :
       (failed'[r] \in FetchSteps) =>
         /\ pc'[r] = "aborted"
         /\ started'[r] = {} /\ posted'[r] = <<>> /\ log'[r] = <<>>
         /\ failed[r] = "none" =>
              /\ \A q \in Runs \ {r} : OfRun(q)' = OfRun(q)
              /\ UNCHANGED <<running, queue, microtasks, faults>>]_vars

\* run 1 ended at its failed diff fetch; run 2 went on and posted its comment
C26_WitnessOtherRunPosts ==
  /\ pc[1] = "aborted" /\ failed[1] = "getDiff"
  /\ pc[2] = "done"
  /\ Len(posted[2]) = 1 /\ "id" \in DOMAIN posted[2][1]

\* the comments the service has posted on the pull request
PostedComments ==
  {<<r, k>> \in Runs \X (1..MaxItems + 1) :
     k <= Len(posted[r]) /\ "id" \in DOMAIN posted[r][k]}

\* C27: over the webhook events of one pull request the service posts at
\* most MAX_INLINE_COMMENTS inline comments in total.
C27_TotalCommentsWithinMax == Cardinality(PostedComments) <= ConfiguredMax

\* ------------------------------------------------- claims on SpecLimiter
\* the post operations that execute has started and that have not yet settled
InFlightPosts == {r \in Runs : pc[r] \in {"posting", "backoff"}}

\* C1: at every moment at most maxConcurrent post operations started inside
\* RateLimiter.execute are unfinished, whatever the interleaving of the runs.
C1_AtMostMaxConcurrentPosts == Cardinality(InFlightPosts) <= maxConcurrent

\* the limiter is full and somebody is waiting for it
C1_WitnessFullWithWaiter ==
  Cardinality(InFlightPosts) = maxConcurrent /\ queue # <<>>

\* C8: every operation run through execute, failed ones too, is followed by
\* the minDelay sleep before its slot is given back.
C8_PacedBeforeRelease ==
  \A r \in Runs : pc[r] \in {"returned", "caught"} => Last(log[r]).paced

\* C9: a caller that had to wait starts its operation only when no caller
\* that began waiting before it is still waiting.
C9_WaitersStartInFifoOrder ==
  [][\A r \in Runs :
       (pc[r] = "woken" /\ pc'[r] = "posting") => Head(waitOrder) = r]_vars

\* two callers wait and the slot just released went to the first of them
C9_WitnessTwoWaitersFirstWoken ==
  /\ Len(waitOrder) >= 2
  /\ pc[waitOrder[1]] = "woken"
  /\ pc[waitOrder[2]] = "waiting"

\* the runs that hold a slot: between running++ and the finally block
SlotHolders == {r \in Runs : pc[r] \in {"posting", "backoff", "pacing"}}
\* the runs inside a call of execute
InExecute == {r \in Runs : pc[r] \in {"waiting", "woken", "posting", "backoff", "pacing"}}

\* C29: 0 <= running <= maxConcurrent always; running counts the calls that
\* took a slot and have not given it back, whether they end by returning or
\* by throwing; when no call of execute is under way running is 0 and the
\* wait queue is empty.
C29_SlotsNeverLeak ==
  /\ running \in 0..maxConcurrent
  /\ running = Cardinality(SlotHolders)
  /\ InExecute = {} => (running = 0 /\ queue = <<>>)

\* every run is through, one of them after a failed post and one after
\* waiting for a slot
C29_WitnessAllDoneAfterFailure ==
  /\ \A r \in Runs : pc[r] = "done"
  /\ \E r \in Runs : \E k \in 1..Len(posted[r]) : "error" \in DOMAIN posted[r][k]
  /\ \E r \in Runs : \E k \in 1..Len(posted[r]) : "id" \in DOMAIN posted[r][k]
  /\ running = 0

\* ---------------------------------------------------------- SpecLimiterLive
\* The event loop runs every continuation and every timer that is due, and
\* every request to the remote is answered: some enabled step is taken.
InitLimiterLive == LimiterStart(LiveRuns)

\* run 1 has two items and comes back for a second slot; the others have one
NextLimiterLive ==
  \/ \E r \in Runs : \E n \in (IF r = 1 THEN {2} ELSE {1}) :
        /\ \A q \in 1..(r - 1) : pc[q] # "inline_gen"
        /\ InlineGenerated(r, ItemList(n))
  \/ \E r \in Runs : Woken(r)
  \/ \E r \in Runs, resp \in LimiterResponses : PostResponse(r, resp)
  \/ \E r \in Runs : BackoffDone(r)
  \/ \E r \in Runs : PacingDone(r)
  \/ \E r \in Runs : Record(r)

SpecLimiterLive == InitLimiterLive /\ [][NextLimiterLive]_vars /\ WF_vars(NextLimiterLive)

\* C30: every call of execute starts its operation and completes: a caller
\* that waits for a slot gets to post, and every run gets to the end of its
\* delivery loop.
C30_EveryCallerCompletes ==
  /\ <>[](\A r \in Runs : pc[r] \in {"off", "done"})
  /\ \A r \in {maxConcurrent + 1} : (pc[r] \in {"waiting", "woken"}) ~> (pc[r] = "posting")

\* a caller that waited has finished its run
C30_WitnessWaiterDone ==
  /\ \A r \in Runs : pc[r] \in {"off", "done"}
  /\ pc[maxConcurrent + 1] = "done"
  /\ Len(posted[maxConcurrent + 1]) = 1


\* the states of a run whose current item has had its first attempt and
\* whose outcome is not yet pushed
InFlight == {"posting", "backoff", "pacing", "returned", "caught"}

\* C32: within one run the items are posted one after another: the items
\* whose first attempt has started are the recorded ones and, at most, the
\* one in flight; every slot of the limiter in use is held by a different
\* run.
C32_OneItemInFlightPerRun ==
  /\ \A r \in Runs :
       Len(log[r]) = Len(posted[r]) + (IF pc[r] \in InFlight THEN 1 ELSE 0)
  /\ running = Cardinality({r \in Runs : pc[r] \in {"posting", "backoff", "pacing"}})

\* run 1 is posting its second item, its first recorded, while another run
\* holds a slot too
C32_WitnessSecondItemAfterFirst ==
  /\ pc[1] = "posting"
  /\ Len(posted[1]) = 1
  /\ Len(log[1]) = 2
  /\ \E r \in Runs \ {1} : pc[r] = "posting"

\* ------------------------------------------------- the tolerant extractor
\* A text is the sequence of its characters.  A character is written as a
\* one-character string; a control character has a name.  One character of
\* the model stands for the whole JSON text of a suggestion object (below).
DQ == "\""
SQ == "'"
BS == "\\"
NL == "\n"
TAB == "\t"
CR == "\r"
FF == "\f"
Backspace == "^H"
Quotes == {DQ, SQ}
\* what \s, trim() and JSON's white space take, of the characters of the model
Whitespace == {" ", NL, TAB, CR}
ControlChars == {NL, TAB, CR, FF, Backspace}
\* [A-Za-z0-9_], of the characters of the model
WordChars == {"a", "b", "e", "j", "l", "n", "o", "r", "s", "t", "u", "k",
              "0", "1", "2", "3", "4", "5", "6", "7", "8", "9", "_"}
\* the backquote, which a string of this language cannot hold
Backquote == "<backquote>"
Fence == <<Backquote, Backquote, Backquote>>

Drop(s, n) == SubSeq(s, n + 1, Len(s))
EndsWith(s, suffix) ==
  /\ Len(s) >= Len(suffix)
  /\ SubSeq(s, Len(s) - Len(suffix) + 1, Len(s)) = suffix
\* the first position from k on that holds no white space
RECURSIVE SkipSpace(_, _)
SkipSpace(s, k) ==
  IF k <= Len(s) /\ s[k] \in Whitespace THEN SkipSpace(s, k + 1) ELSE k
\* the last position up to k that holds no white space
RECURSIVE SkipSpaceBack(_, _)
SkipSpaceBack(s, k) ==
  IF k >= 1 /\ s[k] \in Whitespace THEN SkipSpaceBack(s, k - 1) ELSE k
\* s.trim()
trim(s) == SubSeq(s, SkipSpace(s, 1), SkipSpaceBack(s, Len(s)))
\* s.indexOf(c) and s.lastIndexOf(c), 1-based; 0 when c is not in s
indexOf(s, c) ==
  IF \E k \in 1..Len(s) : s[k] = c
  THEN CHOOSE k \in 1..Len(s) : s[k] = c /\ \A j \in 1..(k - 1) : s[j] # c
  ELSE 0
lastIndexOf(s, c) ==
  IF \E k \in 1..Len(s) : s[k] = c
  THEN CHOOSE k \in 1..Len(s) : s[k] = c /\ \A j \in (k + 1)..Len(s) : s[j] # c
  ELSE 0

\* ---- JavaScript values: Null, Num, Str and the suggestion objects of the
\* validator, and
\* an array with the sequence of its elements
Arr(a) == [t |-> "array", a |-> a]
\* an object read from a text, with its members in the order read
Obj(members) == [t |-> "object", members |-> members]
\* the characters that stand for the JSON text of one suggestion object
\* whose strings hold no bracket, backslash or single quote; such a
\* character stands in a text as it is or once inside a string literal, where
\* it is the object's text with its double quotes escaped
ObjectText ==
  ("{good}" :> Suggestion(Str("f"), Num(12), Str("bug_risk"), Num(9)))
    @@ ("{low}" :> Suggestion(Str("f"), Num(12), Str("bug_risk"), Num(5)))

\* ---- JSON.parse
\* The grammar read: white space, null, numbers written with digits only,
\* strings with the two-character escapes, arrays and objects.
DigitValue ==
  ("0" :> 0) @@ ("1" :> 1) @@ ("2" :> 2) @@ ("3" :> 3) @@ ("4" :> 4)
    @@ ("5" :> 5) @@ ("6" :> 6) @@ ("7" :> 7) @@ ("8" :> 8) @@ ("9" :> 9)
\* what a backslash and the character after it stand for in a string literal
Unescaped ==
  (DQ :> DQ) @@ (BS :> BS) @@ ("/" :> "/") @@ ("n" :> NL) @@ ("t" :> TAB)
    @@ ("r" :> CR) @@ ("f" :> FF) @@ ("b" :> Backspace)
Fail == [ok |-> FALSE, v |-> Null, next |-> 0]
\* F(x) with x evaluated once, as a const binding is
Once(x, F(_)) == CHOOSE r \in {F(y) : y \in {x}} : TRUE
Read(v, next) == [ok |-> TRUE, v |-> v, next |-> next]

\* the rest of a string literal whose opening quote is before position k
RECURSIVE ParseChars(_, _, _)
ParseChars(s, k, acc) ==
  IF k > Len(s) THEN Fail
  ELSE IF s[k] = DQ THEN Read(Str(acc), k + 1)
  ELSE IF s[k] \in ControlChars THEN Fail
  ELSE IF s[k] = BS
    THEN IF k + 1 <= Len(s) /\ s[k + 1] \in DOMAIN Unescaped
         THEN ParseChars(s, k + 2, Append(acc, Unescaped[s[k + 1]]))
         ELSE Fail
  ELSE ParseChars(s, k + 1, Append(acc, s[k]))

RECURSIVE ParseDigits(_, _, _)
ParseDigits(s, k, n) ==
  IF k <= Len(s) /\ s[k] \in DOMAIN DigitValue
  THEN ParseDigits(s, k + 1, 10 * n + DigitValue[s[k]])
  ELSE Read(Num(n), k)
\* no digit may follow a leading 0
ParseNumber(s, k) == IF s[k] = "0" THEN Read(Num(0), k + 1) ELSE ParseDigits(s, k, 0)

RECURSIVE ParseValue(_, _)
RECURSIVE ParseElements(_, _, _)
RECURSIVE ParseMembers(_, _, _)
ParseValue(s, from) ==
  LET k == SkipSpace(s, from) IN
  IF k > Len(s) THEN Fail
  ELSE IF s[k] = DQ THEN ParseChars(s, k + 1, <<>>)
  ELSE IF s[k] \in DOMAIN DigitValue THEN ParseNumber(s, k)
  ELSE IF s[k] \in DOMAIN ObjectText THEN Read(ObjectText[s[k]], k + 1)
  ELSE IF StartsWith(Drop(s, k - 1), <<"n", "u", "l", "l">>) THEN Read(Null, k + 4)
  ELSE IF s[k] = "["
    THEN LET j == SkipSpace(s, k + 1) IN
         IF j <= Len(s) /\ s[j] = "]" THEN Read(Arr(<<>>), j + 1)
         ELSE ParseElements(s, k + 1, <<>>)
  ELSE IF s[k] = "{"
    THEN LET j == SkipSpace(s, k + 1) IN
         IF j <= Len(s) /\ s[j] = "}" THEN Read(Obj(<<>>), j + 1)
         ELSE ParseMembers(s, k + 1, <<>>)
  ELSE Fail
\* the elements of an array from position k on, up to its closing bracket
ParseElements(s, k, acc) ==
  Once(ParseValue(s, k), LAMBDA e :
    IF ~e.ok THEN Fail
    ELSE LET j == SkipSpace(s, e.next) IN
         IF j > Len(s) THEN Fail
         ELSE IF s[j] = "," THEN ParseElements(s, j + 1, Append(acc, e.v))
         ELSE IF s[j] = "]" THEN Read(Arr(Append(acc, e.v)), j + 1)
         ELSE Fail)
\* the members of an object from position from on, up to its closing brace
ParseMembers(s, from, acc) ==
  LET k == SkipSpace(s, from) IN
  IF k > Len(s) \/ s[k] # DQ THEN Fail
  ELSE Once(ParseChars(s, k + 1, <<>>), LAMBDA key :
         IF ~key.ok THEN Fail
         ELSE LET c == SkipSpace(s, key.next) IN
              IF c > Len(s) \/ s[c] # ":" THEN Fail
              ELSE Once(ParseValue(s, c + 1), LAMBDA e :
                     IF ~e.ok THEN Fail
                     ELSE LET j == SkipSpace(s, e.next)
                              m == Append(acc, [key |-> key.v.x, value |-> e.v])
                          IN IF j > Len(s) THEN Fail
                             ELSE IF s[j] = "," THEN ParseMembers(s, j + 1, m)
                             ELSE IF s[j] = "}" THEN Read(Obj(m), j + 1)
                             ELSE Fail))

\* JSON.parse(s): ok is FALSE where it throws a SyntaxError
JSONparse(s) ==
  Once(s, LAMBDA text :
    Once(ParseValue(text, 1), LAMBDA r :
      IF r.ok /\ SkipSpace(text, r.next) > Len(text)
      THEN [ok |-> TRUE, v |-> r.v]
      ELSE [ok |-> FALSE, v |-> Null]))


\* ---- parseClaudeArray
\* the character at position k; "" outside the text
At(s, k) == IF k >= 1 /\ k <= Len(s) THEN s[k] ELSE ""
LeadingQuote(s) == IF At(s, 1) \in Quotes THEN 1 ELSE 0
\* s.replace(/^['"]?```json\s*/i, "") with opening the fence and the word
\* json, s.replace(/^['"]?```\s*/i, "") with opening the fence
StripOpening(s, opening) ==
  LET q == LeadingQuote(s) IN
  IF StartsWith(Drop(s, q), opening)
  THEN Drop(s, SkipSpace(s, q + Len(opening) + 1) - 1)
  ELSE s
\* s.replace(/```['"]?$/i, "")
StripClosing(s) ==
  IF At(s, Len(s)) \in Quotes /\ EndsWith(SubSeq(s, 1, Len(s) - 1), Fence)
  THEN SubSeq(s, 1, Len(s) - 4)
  ELSE IF EndsWith(s, Fence) THEN SubSeq(s, 1, Len(s) - 3)
  ELSE s
\* s.replace(/^['"]|['"]$/g, "")
StripQuotes(s) ==
  LET a == Drop(s, LeadingQuote(s)) IN
  IF At(a, Len(a)) \in Quotes THEN SubSeq(a, 1, Len(a) - 1) ELSE a

\* /\\n|\\t|\\"|\\\\/.test(s)
looksEscaped(s) ==
  \E k \in 1..(Len(s) - 1) : s[k] = BS /\ s[k + 1] \in {"n", "t", DQ, BS}
\* s.replace(/"/g, '\\"')
EscapeQuotes(s) ==
  Concat([k \in 1..Len(s) |-> IF s[k] = DQ THEN <<BS, DQ>> ELSE <<s[k]>>], 1)
\* try { s = JSON.parse(`"${...}"`) } catch { }
DecodeEscaped(s) ==
  Once(JSONparse(<<DQ>> \o EscapeQuotes(s) \o <<DQ>>), LAMBDA lit :
    IF lit.ok THEN lit.v.x ELSE s)

\* /^[\[\{][\s\S]*['"][\s\S]*[\}\]]$/.test(c) && !/":\s*'|'",\s*"/.test(c)
looksSingleQuotedJson(c) ==
  /\ Len(c) >= 3
  /\ c[1] \in {"[", "{"}
  /\ c[Len(c)] \in {"}", "]"}
  /\ \E k \in 2..(Len(c) - 1) : c[k] \in Quotes
  /\ ~ \E k \in 1..Len(c) :
         \/ c[k] = DQ /\ At(c, k + 1) = ":" /\ At(c, SkipSpace(c, k + 2)) = SQ
         \/ /\ c[k] = SQ /\ At(c, k + 1) = DQ /\ At(c, k + 2) = ","
            /\ At(c, SkipSpace(c, k + 3)) = DQ

\* the first position from k on that holds no word character
RECURSIVE WordEnd(_, _)
WordEnd(s, k) == IF At(s, k) \in WordChars THEN WordEnd(s, k + 1) ELSE k
\* the first position from k on that holds a single quote
RECURSIVE NextSQ(_, _)
NextSQ(s, k) == IF k > Len(s) \/ s[k] = SQ THEN k ELSE NextSQ(s, k + 1)

\* The six patterns of the quote-style rewrite.  MatchLen: the length of
\* the pattern's match that starts at position k, 0 without one.
\*   key           /'([A-Za-z0-9_]+)'\s*:/g
\*   value         /:\s*'([^']*)'/g
\*   before_comma  /'\s*,/g
\*   after_comma   /,\s*'/g
\*   opening       /^\[\s*'/
\*   closing       /'\s*\]$/
MatchLen(p, s, k) ==
  LET after == SkipSpace(s, k + 1)
      w == WordEnd(s, k + 1)
      colon == SkipSpace(s, w + 1)
      close == NextSQ(s, after + 1)
  IN CASE p = "key" ->
            IF At(s, k) = SQ /\ w > k + 1 /\ At(s, w) = SQ /\ At(s, colon) = ":"
            THEN colon - k + 1 ELSE 0
       [] p = "value" ->
            IF At(s, k) = ":" /\ At(s, after) = SQ /\ At(s, close) = SQ
            THEN close - k + 1 ELSE 0
       [] p = "before_comma" ->
            IF At(s, k) = SQ /\ At(s, after) = "," THEN after - k + 1 ELSE 0
       [] p = "after_comma" ->
            IF At(s, k) = "," /\ At(s, after) = SQ THEN after - k + 1 ELSE 0
       [] p = "opening" ->
            IF k = 1 /\ At(s, k) = "[" /\ At(s, after) = SQ THEN after - k + 1 ELSE 0
       [] p = "closing" ->
            IF At(s, k) = SQ /\ At(s, after) = "]" /\ after = Len(s)
            THEN after - k + 1 ELSE 0
\* what the match of length n at position k is replaced with
Replacement(p, s, k, n) ==
  CASE p = "key" -> <<DQ>> \o SubSeq(s, k + 1, WordEnd(s, k + 1) - 1) \o <<DQ, ":">>
    [] p = "value" ->
         <<":", " ", DQ>> \o SubSeq(s, SkipSpace(s, k + 1) + 1, k + n - 2) \o <<DQ>>
    [] p = "before_comma" -> <<DQ, ",">>
    [] p = "after_comma" -> <<",", DQ>>
    [] p = "opening" -> <<"[", DQ>>
    [] p = "closing" -> <<DQ, "]">>
\* s.replace(pattern, replacement), from position k on
RECURSIVE ReplaceFrom(_, _, _)
ReplaceFrom(p, s, k) ==
  IF k > Len(s) THEN <<>>
  ELSE LET n == MatchLen(p, s, k) IN
       IF n > 0 THEN Replacement(p, s, k, n) \o ReplaceFrom(p, s, k + n)
       ELSE <<s[k]>> \o ReplaceFrom(p, s, k + 1)
\* const safe = candidate.replace(...).replace(...)...
Requote(c) ==
  ReplaceFrom("closing",
    ReplaceFrom("opening",
      ReplaceFrom("after_comma",
        ReplaceFrom("before_comma",
          ReplaceFrom("value", ReplaceFrom("key", c, 1), 1), 1), 1), 1), 1)

Returned(a) == [threw |-> FALSE, value |-> a]
Thrown == [threw |-> TRUE, value |-> <<>>]
JsonWord == <<"j", "s", "o", "n">>

\* step 4: the whole text
ParseWhole(s) ==
  Once(JSONparse(s), LAMBDA maybe :
    IF maybe.ok /\ maybe.v.t = "array" THEN Returned(maybe.v.a) ELSE Thrown)
\* step 3: the slice from the first "[" to the last "]", as it is and
\* requoted
ParseSlice(s, candidate) ==
  Once(JSONparse(candidate), LAMBDA arr :
    IF arr.ok /\ arr.v.t = "array" THEN Returned(arr.v.a)
    ELSE IF ~arr.ok /\ looksSingleQuotedJson(candidate)
      THEN Once(JSONparse(Requote(candidate)), LAMBDA arr2 :
             IF arr2.ok /\ arr2.v.t = "array" THEN Returned(arr2.v.a)
             ELSE ParseWhole(s))
    ELSE ParseWhole(s))
\* steps 1 and 2
Strip(text) ==
  StripQuotes(StripClosing(
    StripOpening(StripOpening(trim(text), Fence \o JsonWord), Fence)))
Unescape(stripped) ==
  IF looksEscaped(stripped) THEN DecodeEscaped(stripped) ELSE stripped
\* parseClaudeArray on a string
ExtractArray(text) ==
  Once(Strip(text), LAMBDA stripped :
    Once(Unescape(stripped), LAMBDA s :
      LET left == indexOf(s, "[")
          right == lastIndexOf(s, "]")
      IN IF left # 0 /\ right # 0 /\ right > left
         THEN Once(trim(SubSeq(s, left, right)), LAMBDA candidate :
                ParseSlice(s, candidate))
         ELSE ParseWhole(s)))

parseClaudeArray(arg) ==
  IF arg.t = "array" THEN Returned(arg.a)
  ELSE IF arg.t # "string" THEN Thrown
  ELSE ExtractArray(arg.x)

\* ------------------------------------------------------------ SpecExtract
\* parseClaudeArray applied to an array and to the wrapped JSON text of an
\* array of strings and numbers.
\* Elements of the arrays parseClaudeArray is applied to.
MaxElems == 2
DescribeRuns == 2

\* JSON.stringify
Escaped ==
  (DQ :> <<BS, DQ>>) @@ (BS :> <<BS, BS>>) @@ (NL :> <<BS, "n">>)
    @@ (TAB :> <<BS, "t">>)
Literal(chars) ==
  <<DQ>>
    \o Concat([k \in 1..Len(chars) |->
                 IF chars[k] \in DOMAIN Escaped THEN Escaped[chars[k]]
                 ELSE <<chars[k]>>], 1)
    \o <<DQ>>
ElementText(e) ==
  IF e.t = "string" THEN Literal(e.x)
  ELSE <<CHOOSE d \in DOMAIN DigitValue : DigitValue[d] = e.v>>
RECURSIVE JoinFrom(_, _)
JoinFrom(a, k) ==
  IF k > Len(a) THEN <<>>
  ELSE IF k = Len(a) THEN ElementText(a[k])
  ELSE ElementText(a[k]) \o <<",">> \o JoinFrom(a, k + 1)
Stringify(a) == <<"[">> \o JoinFrom(a, 1) \o <<"]">>

\* the elements of the arrays: a plain string, strings that hold a line
\* feed, a double quote, a backslash, a backslash before n, and a number
Elements ==
  {Str(<<"a">>), Str(<<NL>>), Str(<<DQ>>), Str(<<BS>>), Str(<<BS, "n">>), Num(1)}
Arrays == SeqsUpTo(Elements, MaxElems)
Wrappings ==
  {"array", "none", "fence", "fence_tight", "double", "single", "escaped"}
\* what parseClaudeArray is given for array a in wrapping w
Wrap(a, w) ==
  LET json == Stringify(a) IN
  CASE w = "array" -> Arr(a)
    [] w = "none" -> Str(json)
    [] w = "fence" -> Str(Fence \o JsonWord \o <<NL>> \o json \o <<NL>> \o Fence)
    [] w = "fence_tight" -> Str(Fence \o json \o Fence)
    [] w = "double" -> Str(<<DQ>> \o json \o <<DQ>>)
    [] w = "single" -> Str(<<SQ>> \o json \o <<SQ>>)
    [] w = "escaped" -> Str(Literal(json))

InitExtract ==
  /\ AllOff
  /\ phase = "input"
  /\ diffText = <<>>
  /\ parsedDiff = NoParsedDiff
  /\ modifiedLines = <<>>
  /\ sections = <<>>
  /\ options = DefaultOptions
  /\ retry = RetryIdle
  /\ waits = <<>>
  /\ out = <<>>
  /\ wrapped \in [array : Arrays, wrapping : Wrappings]
  /\ input = Wrap(wrapped.array, wrapped.wrapping)
  /\ extracted = NotExtracted
  /\ build = "lenient"

Extract ==
  /\ phase = "input"
  /\ extracted' = parseClaudeArray(input)
  /\ phase' = "extracted"
  /\ UNCHANGED <<out, input, wrapped, build, diffVars, retryVars, parsed, fileMap,
                 validated, sources, notPure>>

NextExtract == Extract

SpecExtract == InitExtract /\ [][NextExtract]_vars

\* C24: for every JSON array and every wrapping of its JSON text in a code
\* fence, in quotes or in escaped-string encoding, parseClaudeArray returns
\* an array equal to it, also when its strings hold escape sequences; an
\* input that is already an array is returned unchanged.
C24_WrappedArrayRecovered ==
  phase = "extracted" => extracted = Returned(wrapped.array)


\* ------------------------------------------------------------- SpecOutput
\* One run whose generation engine has exited with code 0: runClaudeInline
\* goes on from the text the engine printed, in either build.
ResultKey == <<"r", "e", "s", "u", "l", "t">>
\* x.result: the value of the last member of that name, undefined without
Member(x, key) ==
  IF x.t = "object" /\ "members" \in DOMAIN x
       /\ \E k \in 1..Len(x.members) : x.members[k].key = key
  THEN LET last == CHOOSE k \in 1..Len(x.members) :
                     /\ x.members[k].key = key
                     /\ \A j \in (k + 1)..Len(x.members) : x.members[j].key # key
       IN x.members[last].value
  ELSE Undef
\* x || ""
OrEmpty(x) ==
  IF \/ x.t \in {"undefined", "null"}
     \/ x.t = "number" /\ x.v = 0
     \/ x.t = "string" /\ Len(x.x) = 0
  THEN Str(<<>>) ELSE x

\* The try block up to the validation loop.  threw: a statement threw;
\* isArray: the Array.isArray test; a: the array the loop goes through.
NoArray(threw) == [threw |-> threw, isArray |-> FALSE, a |-> <<>>]
ParseStage(text, strict) ==
  Once(JSONparse(text), LAMBDA parsedOut :
    IF ~parsedOut.ok THEN NoArray(TRUE)
    ELSE IF strict
      THEN IF parsedOut.v.t = "array"
           THEN [threw |-> FALSE, isArray |-> TRUE, a |-> parsedOut.v.a]
           ELSE NoArray(FALSE)
    ELSE IF PropThrows(parsedOut.v) THEN NoArray(TRUE)
    ELSE Once(parseClaudeArray(OrEmpty(Member(parsedOut.v, ResultKey))), LAMBDA res :
           IF res.threw THEN NoArray(TRUE)
           ELSE [threw |-> FALSE, isArray |-> TRUE, a |-> res.value]))

\* what runClaudeInline resolves with for the engine's output text
ItemsFrom(text, fm, strict) ==
  Once(ParseStage(text, strict), LAMBDA st :
    IF st.threw \/ ~st.isArray THEN <<>>
    ELSE IF strict THEN runClaudeInline(st.a, fm)
    ELSE runClaudeInlineLenient(st.a))

\* runClaudeInline with a catch block that throws the error on
InlineReturnedRethrows(r) ==
  \E st \in {ParseStage(out, build = "strict")} :
    IF st.threw \/ ~st.isArray
    THEN /\ microtasks = <<>>
         /\ pc[r] = "inline_gen"
         /\ Abort(r, "inline")
         /\ UNCHANGED <<deliveryVars, env, flags, prObj, query, request>>
    ELSE \E items \in {ItemsFrom(out, fileMap, build = "strict")} :
           InlineGenerated(r, items)

\* the engine's output is parsed and validated; the run goes on with the items
InlineReturned(r) ==
  \E items \in {ItemsFrom(out, fileMap, build = "strict")} : InlineGenerated(r, items)

\* the texts the engine prints
NotJson == <<"o", "o", "p", "s">>
OneGood == <<"[", "{good}", "]">>
GoodAndLow == <<"[", "{good}", ",", "{low}", "]">>
Fenced(text) == Fence \o JsonWord \o <<NL>> \o text \o <<NL>> \o Fence
\* {"result":<value>}
ResultObject(valueText) == <<"{", DQ>> \o ResultKey \o <<DQ, ":">> \o valueText \o <<"}">>
EngineOutputs ==
  {<<>>, NotJson, Literal(<<"a">>), <<"1">>, <<"n", "u", "l", "l">>, <<"{", "}">>,
   <<"[", "]">>, OneGood, GoodAndLow,
   ResultObject(Literal(NotJson)), ResultObject(Literal(<<>>)), ResultObject(<<"1">>),
   ResultObject(OneGood), ResultObject(Literal(OneGood)),
   ResultObject(Literal(GoodAndLow)), ResultObject(Literal(Fenced(OneGood)))}

InitOutput ==
  /\ running = 0
  /\ queue = <<>>
  /\ microtasks = <<>>
  /\ pc = [r \in Runs |-> IF r = 1 THEN "inline_gen" ELSE "off"]
  /\ envMax = <<>>
  /\ inline = [r \in Runs |-> <<>>]
  /\ cap = [r \in Runs |-> 0]
  /\ i = [r \in Runs |-> 0]
  /\ posted = [r \in Runs |-> <<>>]
  /\ attempt = [r \in Runs |-> 0]
  /\ delay = [r \in Runs |-> initialDelay]
  /\ lastError = [r \in Runs |-> NoError]
  /\ result = [r \in Runs |-> NoError]
  /\ env = AllOn
  /\ flags = [r \in Runs |-> AllOn]
  /\ prObj = [r \in Runs |-> FALSE]
  /\ started = [r \in Runs |-> IF r = 1 THEN Tasks ELSE {}]
  /\ failed = [r \in Runs |-> "none"]
  /\ faults = MaxFaults
  /\ parsed = <<>>
  /\ fileMap = FileMapOf(ExampleDiff)
  /\ validated = <<>>
  /\ sources = <<>>
  /\ phase = "none"
  /\ log = [r \in Runs |-> <<>>]
  /\ waitOrder = <<>>
  /\ diffText = <<>>
  /\ parsedDiff = NoParsedDiff
  /\ modifiedLines = <<>>
  /\ sections = <<>>
  /\ options = DefaultOptions
  /\ retry = RetryIdle
  /\ waits = <<>>
  /\ query = [r \in Runs |-> NoQuery]
  /\ request = [r \in Runs |-> IF r = 1 THEN "accepted" ELSE "none"]
  /\ response = [r \in Runs |-> IF r = 1 THEN <<Ack>> ELSE <<>>]
  /\ DescribeIdle
  /\ out \in EngineOutputs
  /\ input = NoInput
  /\ extracted = NotExtracted
  /\ wrapped = NotWrapped
  /\ build \in {"strict", "lenient"}

NextOutput ==
  \/ \E r \in Runs : InlineReturned(r)
  \/ \E r \in Runs, resp \in Responses : PostResponse(r, resp)
  \/ \E r \in Runs : BackoffDone(r)
  \/ \E r \in Runs : PacingDone(r)
  \/ \E r \in Runs : Record(r)

SpecOutput == InitOutput /\ [][NextOutput]_vars

\* no array can be obtained from the text: it is not JSON, or (strict) what
\* it holds is not an array, or (lenient) reading its result or the
\* extractor throws
Unparseable(text, b) ==
  \E parsedOut \in {JSONparse(text)} :
  \/ ~parsedOut.ok
  \/ b = "strict" /\ parsedOut.v.t # "array"
  \/ b = "lenient" /\ parsedOut.v.t = "null"
  \/ b = "lenient" /\ parsedOut.v.t # "null"
       /\ parseClaudeArray(OrEmpty(Member(parsedOut.v, ResultKey))).threw

\* C23: when no JSON array can be obtained from the engine's output,
\* runClaudeInline returns an empty list instead of failing: the run posts
\* nothing, no error reaches the task's catch block, and the run completes.
C23_UnparseableOutputGivesNoItems ==
  \A r \in Runs :
    (pc[r] \notin {"off", "inline_gen"} /\ Unparseable(out, build))
      => /\ inline[r] = <<>>
         /\ posted[r] = <<>>
         /\ failed[r] = "none"
         /\ pc[r] = "done"

\* the extractor threw on the result text, and the run has completed
C23_WitnessExtractorThrewRunDone ==
  /\ build = "lenient"
  /\ out = ResultObject(Literal(NotJson))
  /\ parseClaudeArray(Str(NotJson)).threw
  /\ pc[1] = "done"
  /\ inline[1] = <<>>
  /\ posted[1] = <<>>
  /\ failed[1] = "none"


\* ------------------------------------------- further claims on SpecDiff
IsMarker(line) == StartsWith(line, <<"diff --git">>)
IsHunkLine(line) == StartsWith(line, <<"@@">>)
IsValidHeader(line) == IsHunkLine(line) /\ HunkMatch(line).matched
\* the positions of the file markers of a text, in order
Markers(text) == {k \in 1..Len(text) : IsMarker(text[k])}
NthMarker(text, f) ==
  CHOOSE k \in Markers(text) : Cardinality({m \in Markers(text) : m < k}) = f - 1
\* where the part of the f-th file ends: its next file marker, or the end
FileEnd(text, f) ==
  IF f < Cardinality(Markers(text)) THEN NthMarker(text, f + 1) ELSE Len(text) + 1
\* the positions of the valid hunk headers of the f-th file, in order
HeadersOf(text, f) ==
  {k \in (NthMarker(text, f) + 1)..(FileEnd(text, f) - 1) : IsValidHeader(text[k])}
NthHeader(text, f, h) ==
  CHOOSE k \in HeadersOf(text, f) :
    Cardinality({m \in HeadersOf(text, f) : m < k}) = h - 1
\* the lines of text[a..b] that are no hunk header
RECURSIVE BodyOf(_, _, _)
BodyOf(text, a, b) ==
  IF a > b THEN <<>>
  ELSE IF IsHunkLine(text[a]) THEN BodyOf(text, a + 1, b)
  ELSE <<text[a]>> \o BodyOf(text, a + 1, b)

\* C31: each hunk appears exactly once in the result of parseDiff, in the
\* hunk list of the file whose marker most recently preceded its header: a
\* file holds as many hunks as valid hunk headers stand between its marker
\* and the next one, and the lines of each come from after its header and
\* before the next file marker.
C31_HunkOnceInItsFile ==
  phase # "input" =>
    /\ Len(parsedDiff.files) = Cardinality(Markers(diffText))
    /\ \A f \in 1..Len(parsedDiff.files) :
         /\ Len(parsedDiff.files[f].hunks) = Cardinality(HeadersOf(diffText, f))
         /\ \A h \in 1..Len(parsedDiff.files[f].hunks) :
              \E e \in NthHeader(diffText, f, h)..(FileEnd(diffText, f) - 1) :
                parsedDiff.files[f].hunks[h].lines
                  = BodyOf(diffText, NthHeader(diffText, f, h) + 1, e)

\* ----------------------------------------------------------- SpecSignature
\* The handler on a pull-request event with a complete payload, with the
\* signature check of verifyWebhookSignature computed from the header.
\* A header is present or not; its text is a sequence of characters, the
\* prefix "sha256=" being one element.  The HMAC of the body under the
\* configured secret is a fixed string of lower-case hex digits (three of
\* them here).
Prefix == "sha256="
ExpectedDigest == <<"a", "1", "f">>
NoHeader == [present |-> FALSE, text |-> <<>>]
Header(text) == [present |-> TRUE, text |-> text]
SignatureHeaders ==
  {NoHeader, Header(<<>>), Header(<<"sha1=">> \o ExpectedDigest), Header(ExpectedDigest)}
    \cup {Header(<<Prefix>> \o d) :
            d \in {ExpectedDigest, <<" ", "A", "1", "F", " ">>, <<"a", "1", "e">>,
                   <<"a", "1">>, <<"a", "1", "f", "0">>, <<>>, <<"a", "é">>}}

\* String.prototype.toLowerCase on the characters in use
LowerChar(c) == IF c = "A" THEN "a" ELSE IF c = "F" THEN "f" ELSE c
toLowerCase(s) == [k \in 1..Len(s) |-> LowerChar(s[k])]
\* Buffer.from(s).length: the UTF-8 bytes of s
RECURSIVE byteLength(_)
byteLength(s) ==
  IF s = <<>> THEN 0 ELSE (IF Head(s) = "é" THEN 2 ELSE 1) + byteLength(Tail(s))

\* header.slice("sha256=".length).trim().toLowerCase()
Provided(header) == toLowerCase(trim(Tail(header.text)))

\* "true", "false", or "throws": crypto.timingSafeEqual throws a RangeError
\* when its two buffers differ in byte length
verifyWebhookSignature(header, secret) ==
  IF ~secret THEN "true"
  ELSE IF ~header.present \/ header.text = <<>> \/ Head(header.text) # Prefix
  THEN "false"
  ELSE IF byteLength(Provided(header)) # byteLength(ExpectedDigest) THEN "throws"
  ELSE IF Provided(header) = ExpectedDigest THEN "true"
  ELSE "false"

\* the handler from its first line to the start of the background task
WebhookSigned(r, secret, header, q) ==
  /\ microtasks = <<>>
  /\ pc[r] = "idle"
  /\ request' = [request EXCEPT ![r] = [secret |-> secret, header |-> header]]
  /\ \E v \in {verifyWebhookSignature(header, secret)} :
       CASE v = "false" ->
              /\ response' = [response EXCEPT ![r] = Append(@, RejectionOf("bad_signature"))]
              /\ pc' = [pc EXCEPT ![r] = "rejected"]
              /\ UNCHANGED <<query, flags>>
         [] v = "throws" ->
              /\ response' = [response EXCEPT ![r] = Append(@, RejectionOf("throws"))]
              /\ pc' = [pc EXCEPT ![r] = "rejected"]
              /\ UNCHANGED <<query, flags>>
         [] v = "true" ->
              /\ query' = [query EXCEPT ![r] = q]
              /\ flags' = [flags EXCEPT ![r] =
                    [describe |-> Enabled(q.describe, env.describe),
                     review |-> Enabled(q.review, env.review),
                     inline |-> Enabled(q.inline, env.inline)]]
              /\ response' = [response EXCEPT ![r] = Append(@, Ack)]
              /\ pc' = [pc EXCEPT ![r] = "token"]
  /\ UNCHANGED <<deliveryVars, env, prObj, started, failed>>

NextSignature ==
  \/ \E r \in Runs, secret \in BOOLEAN, header \in SignatureHeaders, q \in PlainQueries :
       WebhookSigned(r, secret, header, q)
  \/ \E r \in Runs, ok \in BOOLEAN : TokenDone(r, ok)
  \/ \E r \in Runs, ok \in BOOLEAN, m \in BOOLEAN : GetPRDone(r, ok, m)
  \/ \E r \in Runs, ok \in BOOLEAN : GetDiffDone(r, ok)
  \/ \E r \in Runs, ok \in BOOLEAN, ne \in BOOLEAN : DescribeGenerated(r, ok, ne)
  \/ \E r \in Runs, ok \in BOOLEAN : DescribePut(r, ok)
  \/ \E r \in Runs, ok \in BOOLEAN, ne \in BOOLEAN : ReviewGenerated(r, ok, ne)
  \/ \E r \in Runs, ok \in BOOLEAN : ReviewPosted(r, ok)
  \/ \E r \in Runs : InlineFailed(r)
  \/ \E r \in Runs : InlineGenerated(r, <<>>)

SpecSignature == Init /\ [][NextSignature]_vars

\* the header is missing, lacks the prefix, or its digest is not the HMAC
BadSignature(header) ==
  \/ ~header.present
  \/ header.text = <<>>
  \/ Head(header.text) # Prefix
  \/ Provided(header) # ExpectedDigest

\* C36: with a secret configured, a request whose signature header is
\* missing, lacks the prefix "sha256=" or carries a digest, of any length,
\* that is not the HMAC of the body is answered with 401 and starts no
\* background processing.
C36_BadSignatureAnswered401 ==
  \A r \in Runs :
    (pc[r] \notin {"off", "idle"} /\ request[r].secret /\ BadSignature(request[r].header))
      => /\ response[r] = <<Response(401, "bad signature")>>
         /\ pc[r] = "rejected"
         /\ started[r] = {}

\* ------------------------------------------------------------ SpecDescribe
\* Several runs for one pull request, the describe task alone enabled, with
\* the description Bitbucket holds: getPR returns it, updatePRDescription
\* replaces it.
InitialDescriptions == {<<>>, <<"text">>, <<"text", Marker, "summary">>}
\* what runClaudeDescribe resolves with ("" included), free of the marker
Summaries == {<<>>, <<"summary">>, <<"summary", "more">>}
\* Number(process.env.MAX_DESC_APPEND_CHARS || 2500), in pieces of text
ClipLengths == {0, 1}

\* descAdd.slice(0, max)
Clipped(descAdd, max) == SubSeq(descAdd, 1, Min(Len(descAdd), max))
\* `${prObj.description || ""}\n\n### 🤖 AI Summary\n${clipped}`.trim()
NewDesc(fetched, clipped) == fetched \o <<Marker>> \o clipped

\* the number of times piece occurs in text
Occurrences(text, piece) == Cardinality({k \in 1..Len(text) : text[k] = piece})

InitDescribe ==
  /\ running = 0
  /\ queue = <<>>
  /\ microtasks = <<>>
  /\ pc = [r \in Runs |-> IF r <= DescribeRuns THEN "idle" ELSE "off"]
  /\ envMax = <<>>
  /\ inline = [r \in Runs |-> <<>>]
  /\ cap = [r \in Runs |-> 0]
  /\ i = [r \in Runs |-> 0]
  /\ posted = [r \in Runs |-> <<>>]
  /\ attempt = [r \in Runs |-> 0]
  /\ delay = [r \in Runs |-> initialDelay]
  /\ lastError = [r \in Runs |-> NoError]
  /\ result = [r \in Runs |-> NoError]
  /\ env = [describe |-> TRUE, review |-> FALSE, inline |-> FALSE]
  /\ flags = [r \in Runs |-> [describe |-> FALSE, review |-> FALSE, inline |-> FALSE]]
  /\ prObj = [r \in Runs |-> FALSE]
  /\ started = [r \in Runs |-> {}]
  /\ failed = [r \in Runs |-> "none"]
  /\ faults = MaxFaults
  /\ parsed = <<>>
  /\ fileMap = NoFiles
  /\ validated = <<>>
  /\ sources = <<>>
  /\ phase = "none"
  /\ log = [r \in Runs |-> <<>>]
  /\ waitOrder = <<>>
  /\ PureIdle
  /\ query = [r \in Runs |-> NoQuery]
  /\ request = [r \in Runs |-> "none"]
  /\ response = [r \in Runs |-> <<>>]
  /\ description \in InitialDescriptions
  /\ describe = [r \in Runs |-> [fetched |-> <<>>, sent |-> NotSent]]

\* getPR settles with the description the pull request has at that time
GetPRFetched(r, ok) ==
  /\ microtasks = <<>>
  /\ pc[r] = "getPR"
  /\ IF ok THEN /\ pc' = [pc EXCEPT ![r] = "getDiff"]
                /\ prObj' = [prObj EXCEPT ![r] = Includes(description, Marker)]
                /\ describe' = [describe EXCEPT ![r].fetched = description]
                /\ UNCHANGED <<started, failed, response>>
           ELSE Abort(r, "getPR") /\ UNCHANGED <<prObj, describe>>
  /\ UNCHANGED <<postVars, description, env, flags, query, request>>

\* the describe task that sends the PUT whatever the fetched description holds
DescribeAppendAlways(r, ok, descAdd, max) ==
  /\ microtasks = <<>>
  /\ pc[r] = "describe_gen"
  /\ IF ~ok THEN Abort(r, "describe") /\ UNCHANGED describe
     ELSE IF descAdd # <<>>
          THEN /\ pc' = [pc EXCEPT ![r] = "describe_put"]
               /\ describe' = [describe EXCEPT ![r].sent =
                     [called |-> TRUE,
                      text |-> NewDesc(describe[r].fetched, Clipped(descAdd, max))]]
               /\ UNCHANGED <<started, failed, response>>
          ELSE Advance(r, "review") /\ UNCHANGED describe
  /\ UNCHANGED <<postVars, description, env, flags, prObj, query, request>>

\* runClaudeDescribe settles with descAdd; a non-empty summary is appended to
\* a fetched description without the marker and sent with updatePRDescription
DescribeAppend(r, ok, descAdd, max) ==
  /\ microtasks = <<>>
  /\ pc[r] = "describe_gen"
  /\ IF ~ok THEN Abort(r, "describe") /\ UNCHANGED describe
     ELSE IF descAdd # <<>> /\ ~Includes(describe[r].fetched, Marker)
          THEN /\ pc' = [pc EXCEPT ![r] = "describe_put"]
               /\ describe' = [describe EXCEPT ![r].sent =
                     [called |-> TRUE,
                      text |-> NewDesc(describe[r].fetched, Clipped(descAdd, max))]]
               /\ UNCHANGED <<started, failed, response>>
          ELSE Advance(r, "review") /\ UNCHANGED describe
  /\ UNCHANGED <<postVars, description, env, flags, prObj, query, request>>

\* updatePRDescription settles: a 2xx answer means Bitbucket has replaced the
\* description by the one sent
UpdatePRDescriptionDone(r, ok) ==
  /\ microtasks = <<>>
  /\ pc[r] = "describe_put"
  /\ IF ok THEN Advance(r, "review") /\ description' = describe[r].sent.text
           ELSE Abort(r, "describe") /\ UNCHANGED description
  /\ UNCHANGED <<postVars, describe, env, flags, prObj, query, request>>

NextDescribe ==
  \/ \E r \in Runs : Webhook(r, NoQuery)
  \/ \E r \in Runs, ok \in BOOLEAN : TokenDone(r, ok)
  \/ \E r \in Runs, ok \in BOOLEAN : GetPRFetched(r, ok)
  \/ \E r \in Runs, ok \in BOOLEAN : GetDiffDone(r, ok)
  \/ \E r \in Runs, ok \in BOOLEAN, descAdd \in Summaries, max \in ClipLengths :
       DescribeAppend(r, ok, descAdd, max)
  \/ \E r \in Runs, ok \in BOOLEAN : UpdatePRDescriptionDone(r, ok)

SpecDescribe == InitDescribe /\ [][NextDescribe]_vars

\* C33: a run whose fetched description holds the marker never calls
\* updatePRDescription; every description a run sends holds the marker
\* exactly once; and whatever the interleaving of the runs, the description
\* of the pull request never holds more than one AI summary.
C33_MarkerWrittenOnce ==
  /\ \A r \in Runs :
       /\ Includes(describe[r].fetched, Marker) => ~describe[r].sent.called
       /\ describe[r].sent.called => Occurrences(describe[r].sent.text, Marker) = 1
  /\ Occurrences(description, Marker) <= 1

\* one run has appended its summary; a later run fetched the description with
\* the marker, got a summary and ended without a PUT
C33_WitnessSecondRunSkips ==
  \E a \in Runs, b \in Runs :
    /\ describe[a].sent.called /\ pc[a] = "done"
    /\ description = describe[a].sent.text
    /\ describe[b].fetched = describe[a].sent.text
    /\ pc[b] = "done" /\ "describe" \in started[b]
    /\ ~describe[b].sent.called

====
